---- MODULE Spec2Model ----
(***************************************************************************)
(* Perception cache, selector matchers and solution counters of the        *)
(* physics_perception library (ObjectNode, GroupNode, SceneNode, Selector, *)
(* Solution).                                                              *)
(*                                                                         *)
(* Activities are kept in tenths (0..10), so the activation threshold 0.5  *)
(* is 5.  A percept object is a record with its own identity `id`.         *)
(***************************************************************************)
EXTENDS Integers, Sequences, FiniteSets, TLC

VARIABLES
  world,        \* what the physics engine would measure (fixed per behaviour)
  objs,         \* SceneNode.objs: the shapes that own a registered ObjectNode
  hasNode,      \* shapes whose object_node back-pointer is set
  times,        \* ObjectNode.times, per node: time -> key -> percept | list
  gtimes,       \* GroupNode.times of the scene's all-group
  collisions,   \* SceneNode.collisions
  curr_state,   \* oracle.curr_state ("" when unset)
  nextId,       \* identity of the next percept object to be constructed
  log,          \* what the last handler did, in order
  call,         \* the last call and what it returned
  ops,          \* number of calls made so far
  sol,          \* the Solution under test
  heap,         \* the Selector and matcher objects constructed so far
  fits_solution \* SceneNode.fits_solution ("undefined" until it is set)

vars == <<world, objs, hasNode, times, gtimes, collisions, curr_state,
          nextId, log, call, ops, sol, heap, fits_solution>>

----------------------------------------------------------------------------
\* Bounds

MaxOps == 2

----------------------------------------------------------------------------
\* Settings and scene

activation_threshold == 5

Ground == 0
NoOther == 99
NoTime == ""

SceneTimes == <<"start", "end">>
\* the shapes a scene can hold: the ground and up to three movable ones
Movables == {1, 2, 3}
Shapes == Movables \cup {Ground}
\* the frame around a scene, the shape with id '|'
Frame == 4

\* the registries, in registration order (a representative of each kind of
\* feature: plain, constant, nested, counterfactual)
ObjAttrKeys == <<"left_pos", "on_ground", "shape", "stability", "moves">>
GroupAttrKeys == <<"count", "touching">>
ObjRelKeys == <<"above", "below", "close", "on_top_of", "touch", "hits", "supports">>

Range(s) == {s[i] : i \in DOMAIN s}

AttrConstant(key) == key \in {"shape", "moves"}
GroupAttrConstant(key) == key = "count"
RelConstant(key) == key = "hits"

Max(a, b) == IF a >= b THEN a ELSE b

\* F applied to the value of e (sequencing of two steps of a handler)
Then(e, F(_)) == CHOOSE r \in {F(x) : x \in {e}} : TRUE

----------------------------------------------------------------------------
\* The physics engine as seen through the oracle.  A world gives the value
\* measured for (state, feature, object, other); what is not listed is 0.

Val(s, key, a, b) ==
  IF <<s, key, a, b>> \in DOMAIN world.val THEN world.val[<<s, key, a, b>>] ELSE 0

EmptyTimes == [t \in {} |-> 0]

\* one record per thing a handler does
Emit(h, e, a, n) ==
  [h EXCEPT !.log = Append(@, [e |-> e, a |-> a, n |-> n, d |-> h.depth,
                               snap |-> IF e \in {"push", "pop"} THEN h.times
                                        ELSE [x \in {} |-> 0]])]

gotoState(h, name) ==
  Emit([h EXCEPT !.curr = name], "goto", name, NoOther)

pushState(h) == Emit([h EXCEPT !.depth = @ + 1], "push", "", NoOther)
popState(h) == [Emit(h, "pop", "", NoOther) EXCEPT !.depth = @ - 1]

\* analyzeFuture(dt, before, after) with callbacks that only touch the engine
analyzeFuture(h, before) ==
  LET h1 == pushState(h)
      h2 == IF before = "" THEN h1 ELSE Emit(h1, "before", before, NoOther)
  IN popState(h2)

Percept(id, key, obj, other, val, num, act, label) ==
  [id |-> id, key |-> key, obj |-> obj, other |-> other, val |-> val,
   num |-> num, act |-> act, label |-> label]

Alloc(h, key, n) == Emit([h EXCEPT !.next = @ + 1], "new", key, n)

----------------------------------------------------------------------------
\* The times cache of one node

HasKey(tm, t, key) == t \in DOMAIN tm /\ key \in DOMAIN tm[t]

\* m[key] = v
Put(m, key, v) == [k \in DOMAIN m \cup {key} |-> IF k = key THEN v ELSE m[k]]

PutKey(tm, t, key, v) ==
  Put(tm, t, Put(IF t \in DOMAIN tm THEN tm[t] ELSE EmptyTimes, key, v))

Opts(time, other, cache_only, get_all) ==
  [time |-> time, other |-> other, cache_only |-> cache_only, get_all |-> get_all]

NoOpts == Opts(NoTime, NoOther, FALSE, FALSE)

----------------------------------------------------------------------------
\* Features.  Every constructor takes the handler state h and returns the
\* state it leaves together with the percept it built.  `ctx` is the body
\* that is deactivated in the sandbox frame the constructor runs in.

ImpulseName(dir, soft) ==
  IF dir = "left" THEN (IF soft THEN "left-small" ELSE "left-medium")
                  ELSE (IF soft THEN "right-small" ELSE "right-medium")

\* is_stable(dir, soft) of checkStability
is_stable(h, obj, ctx, dir, soft) ==
  [h |-> analyzeFuture(h, ImpulseName(dir, soft)),
   ok |-> <<ctx, obj, dir, soft>> \in world.pass]

checkStability(h, obj, ctx) ==
  IF obj \in world.static THEN [h |-> h, val |-> "stable"]
  ELSE IF <<h.curr, obj>> \in world.fast THEN [h |-> h, val |-> "moving"]
  ELSE
    Then(is_stable(h, obj, ctx, "left", FALSE), LAMBDA l1 :
    Then(IF l1.ok THEN is_stable(l1.h, obj, ctx, "right", FALSE)
         ELSE [h |-> l1.h, ok |-> FALSE], LAMBDA r1 :
      IF r1.ok THEN [h |-> r1.h, val |-> "stable"]
      ELSE
        Then(is_stable(r1.h, obj, ctx, "left", TRUE), LAMBDA l2 :
        Then(IF l2.ok THEN is_stable(l2.h, obj, ctx, "right", TRUE)
             ELSE [h |-> l2.h, ok |-> FALSE], LAMBDA r2 :
          IF r2.ok THEN [h |-> r2.h, val |-> "slightly unstable"]
          ELSE [h |-> r2.h, val |-> "unstable"]))))

StabilityLabel(val) ==
  IF val \in {"stable", "slightly unstable"} THEN "stable" ELSE "unstable"

StabilityAttribute(h, obj, ctx) ==
  Then(checkStability(Alloc(h, "stability", obj), obj, ctx), LAMBDA c :
    [h |-> c.h,
     p |-> Percept(h.next, "stability", obj, NoOther, c.val, 0, 10,
                   StabilityLabel(c.val))])

MovesAttribute(h, obj, ctx) ==
  LET h0 == Alloc(h, "moves", obj)
      h1 == analyzeFuture(h0, "")
      act == IF ctx = NoOther THEN Val(h.curr, "moves", obj, NoOther)
             ELSE IF <<ctx, obj>> \in world.mvw THEN 10 ELSE 0
  IN [h |-> h1, p |-> Percept(h.next, "moves", obj, NoOther, "", act, act, "moves")]

LeftAttribute(h, obj) ==
  LET x == Val(h.curr, "left_pos", obj, NoOther)
  IN [h |-> Alloc(h, "left_pos", obj),
      p |-> Percept(h.next, "left_pos", obj, NoOther, "", x, x, "left")]

ShapeAttribute(h, obj) ==
  LET val == world.shape[obj]
  IN [h |-> Alloc(h, "shape", obj),
      p |-> Percept(h.next, "shape", obj, NoOther, val, 0,
                    IF val = "?" THEN 0 ELSE 10, val)]

TouchMembership(dist) == IF dist <= 5 THEN 10 ELSE 0

\* above, below, close: the graded value the analyzer / sigmoid yields
PlainRelationship(h, key, label, obj, other) ==
  LET v == Val(h.curr, key, obj, other)
  IN [h |-> Alloc(h, key, obj),
      p |-> Percept(h.next, key, obj, other, "", v, v, label)]

TouchRelationship(h, obj, other) ==
  LET dist == Val(h.curr, "dist", obj, other)
  IN [h |-> Alloc(h, "touch", obj),
      p |-> Percept(h.next, "touch", obj, other, "", dist,
                    TouchMembership(dist), "touches")]

SeqMax(s) ==
  LET R[i \in 0..Len(s)] == IF i = 0 THEN 0 ELSE Max(R[i-1], s[i])
  IN R[Len(s)]

HitsRelationship(h, obj, other) ==
  LET colls == SelectSeq(h.collisions, LAMBDA c : c.a = obj /\ c.b = other)
      val == IF Len(colls) = 0 THEN 0 ELSE SeqMax([i \in 1..Len(colls) |-> colls[i].dv])
  IN [h |-> Alloc(h, "hits", obj),
      p |-> Percept(h.next, "hits", obj, other, "", val,
                    IF val = 0 THEN 0 ELSE 10, "hits")]

SupportsActivity(val) ==
  CASE val = "directly" -> 10
    [] val = "indirectly" -> 7
    [] val = "stabilizes" -> 4
    [] val = "not" -> 0
    [] OTHER -> "unknown support value"

----------------------------------------------------------------------------
\* The getters.  A feature that gets other features (on_ground, on_top_of,
\* supports) calls the same getAttr and getRel again; the features it gets
\* get at most on_top_of, which gets features that get nothing.  The getters
\* are therefore written once (AttrGot, RelGot) and used at three depths.

\* o.time of getAttr: the time passed, else the oracle's current state;
\* 'start' for a constant attribute
AttrTime(h, key, opts) ==
  IF AttrConstant(key) THEN "start"
  ELSE IF opts.time = NoTime THEN h.curr ELSE opts.time

\* o.time of getRel
RelTime(h, key, opts) ==
  IF RelConstant(key) THEN "start"
  ELSE IF opts.time = NoTime THEN h.curr ELSE opts.time

\* if (o.time) oracle.gotoState(o.time)
Goto(h, t) == IF t # NoTime THEN gotoState(h, t) ELSE h

\* inserting into this.times[time][key]
CacheAttr(h, n, t, key, p) ==
  Emit([h EXCEPT !.times[n] = PutKey(@, t, key, p)], "insert", key, n)

\* the list of the key replaced instead of extended
CacheRel_replace(h, n, t, key, p) ==
  Emit([h EXCEPT !.times[n] = PutKey(@, t, key, <<p>>)], "insert", key, n)

CacheRel(h, n, t, key, p) ==
  LET old == IF HasKey(h.times[n], t, key) THEN h.times[n][t][key] ELSE <<>>
  IN Emit([h EXCEPT !.times[n] = PutKey(@, t, key, Append(old, p))], "insert", key, n)

\* ObjectNode.prototype.getAttr, where c is what the constructor of the
\* attribute yields in the state Goto(h, o.time)
AttrGot(h, n, key, opts, c) ==
  LET t == AttrTime(h, key, opts)
  IN IF HasKey(h.times[n], t, key)
     THEN [h |-> h, kind |-> "percept", res |-> <<h.times[n][t][key]>>]
     ELSE IF opts.cache_only THEN [h |-> h, kind |-> "false", res |-> <<>>]
     ELSE [h |-> IF t # NoTime THEN CacheAttr(c.h, n, t, key, c.p) ELSE c.h,
           kind |-> "percept", res |-> <<c.p>>]

\* ObjectNode.prototype.getRel, where c is what the constructor of the
\* relationship yields in the state Goto(h, o.time)
RelGot(h, n, key, opts, c) ==
  LET t == RelTime(h, key, opts)
      cached == HasKey(h.times[n], t, key)
      cache == IF cached THEN h.times[n][t][key] ELSE <<>>
      found == SelectSeq(cache, LAMBDA rel : rel.other = opts.other)
  IN IF cached /\ opts.get_all
     THEN [h |-> h, kind |-> "list", res |-> cache]
     \* o.other.obj of the filter, evaluated for the first cached relation
     ELSE IF cached /\ Len(cache) > 0 /\ opts.other = NoOther
     THEN [h |-> h, kind |-> "throw", res |-> <<>>]
     ELSE IF cached /\ Len(found) > 0
     THEN [h |-> h, kind |-> "percept", res |-> <<found[1]>>]
     ELSE IF opts.cache_only
     THEN [h |-> h, kind |-> IF opts.get_all THEN "list" ELSE "false", res |-> <<>>]
     \* o.other.obj of the constructor call, evaluated after gotoState
     ELSE IF opts.other = NoOther
     THEN [h |-> Goto(h, t), kind |-> "throw", res |-> <<>>]
     ELSE [h |-> IF t # NoTime THEN CacheRel(c.h, n, t, key, c.p) ELSE c.h,
           kind |-> "percept", res |-> <<c.p>>]

\* the attributes whose constructor gets no feature
NewAttr0(h, key, obj) ==
  CASE key = "left_pos" -> LeftAttribute(h, obj)
    [] key = "shape" -> ShapeAttribute(h, obj)
    [] key = "stability" -> StabilityAttribute(h, obj, NoOther)
    [] key = "moves" -> MovesAttribute(h, obj, NoOther)

\* the relationships whose constructor gets no feature
NewRel0(h, key, obj, other) ==
  CASE key = "above" -> PlainRelationship(h, "above", "above", obj, other)
    [] key = "below" -> PlainRelationship(h, "below", "below", obj, other)
    [] key = "close" -> PlainRelationship(h, "close", "close", obj, other)
    [] key = "touch" -> TouchRelationship(h, obj, other)
    [] key = "hits" -> HitsRelationship(h, obj, other)

\* getAttr and getRel as a feature's constructor calls them, for these
getAttr0(h, n, key, opts) ==
  AttrGot(h, n, key, opts, NewAttr0(Goto(h, AttrTime(h, key, opts)), key, n))

getRel0(h, n, key, opts) ==
  RelGot(h, n, key, opts, NewRel0(Goto(h, RelTime(h, key, opts)), key, n, opts.other))

OnGroundAttribute(h, obj) ==
  Then(getRel0(Alloc(h, "on_ground", obj), obj, "touch",
               Opts(NoTime, Ground, FALSE, FALSE)), LAMBDA touch :
    [h |-> touch.h,
     p |-> Percept(h.next, "on_ground", obj, NoOther, "", touch.res[1].act,
                   touch.res[1].act, "on-ground")])

OnTopRelationship(h, obj, other) ==
  Then(getRel0(Alloc(h, "on_top_of", obj), obj, "touch",
               Opts(NoTime, other, FALSE, FALSE)), LAMBDA touch :
  Then(getRel0(touch.h, obj, "above", Opts(NoTime, other, FALSE, FALSE)), LAMBDA above :
  Then(getRel0(above.h, other, "below", Opts(NoTime, obj, FALSE, FALSE)), LAMBDA below :
  Then((touch.res[1].act * Max(above.res[1].act, below.res[1].act)) \div 10, LAMBDA val :
    [h |-> below.h,
     p |-> Percept(h.next, "on_top_of", obj, other, "", val, val, "on-top-of")]))))

\* getRel as checkSupports calls it for on_top_of
getRel1(h, n, key, opts) ==
  RelGot(h, n, key, opts,
         IF key = "on_top_of" THEN OnTopRelationship(Goto(h, RelTime(h, key, opts)), n, opts.other)
         ELSE NewRel0(Goto(h, RelTime(h, key, opts)), key, n, opts.other))

\* the two counterfactual probes of checkSupports: A is deactivated in
\* `before`, the percept is built in `after` and only its value is returned
ProbeMoves(h, A, B) ==
  Then(MovesAttribute(Emit(pushState(h), "before", "deactivate", A), B, A), LAMBDA m :
    [h |-> popState(m.h), p |-> m.p])

\* the stability probe keeping its percept in the cache of B
ProbeStability_cached(h, A, B) ==
  Then(StabilityAttribute(Emit(pushState(h), "before", "deactivate", A), B, A), LAMBDA s :
    [h |-> popState(Emit([s.h EXCEPT !.times[B] = PutKey(@, "without", "stability", s.p)],
                         "insert", "stability", B)),
     p |-> s.p])

ProbeStability(h, A, B) ==
  Then(StabilityAttribute(Emit(pushState(h), "before", "deactivate", A), B, A), LAMBDA s :
    [h |-> popState(s.h), p |-> s.p])

checkSupports(h, A, B) ==
  IF A = B THEN [h |-> h, val |-> "not"]
  ELSE
    Then(getAttr0(h, B, "moves", NoOpts), LAMBDA moves :
      IF moves.res[1].act > 5 THEN [h |-> moves.h, val |-> "not"]
      ELSE
        Then(getRel0(moves.h, A, "touch", Opts(NoTime, B, FALSE, FALSE)), LAMBDA touch :
        Then(ProbeMoves(touch.h, A, B), LAMBDA bm :
          IF bm.p.act > 5
          THEN [h |-> bm.h,
                val |-> IF touch.res[1].act > 5 THEN "directly" ELSE "indirectly"]
          ELSE
            Then(getRel1(bm.h, B, "on_top_of", Opts(NoTime, A, FALSE, FALSE)), LAMBDA ot :
              IF ot.res[1].act > 5 THEN [h |-> ot.h, val |-> "stabilizes"]
              ELSE
                Then(getRel0(ot.h, A, "close", Opts(NoTime, B, FALSE, FALSE)), LAMBDA nr :
                  IF nr.res[1].act > 5
                  THEN
                    Then(getAttr0(nr.h, B, "stability", NoOpts), LAMBDA st :
                      IF st.res[1].label = "stable"
                      THEN
                        Then(ProbeStability(st.h, A, B), LAMBDA sw :
                          IF sw.p.label # "stable"
                          THEN [h |-> sw.h, val |-> "stabilizes"]
                          ELSE [h |-> sw.h, val |-> "not"])
                      ELSE [h |-> st.h, val |-> "not"])
                  ELSE [h |-> nr.h, val |-> "not"])))))

\* supports that takes every dependence of B on A for a direct one
SupportsRelationship_direct(h, obj, other) ==
  Then(checkSupports(Alloc(h, "supports", obj), obj, other), LAMBDA c :
  Then(IF c.val = "indirectly" THEN "directly" ELSE c.val, LAMBDA val :
    [h |-> c.h,
     p |-> Percept(h.next, "supports", obj, other, val, 0,
                   SupportsActivity(val), "supporting")]))

SupportsRelationship(h, obj, other) ==
  Then(checkSupports(Alloc(h, "supports", obj), obj, other), LAMBDA c :
    [h |-> c.h,
     p |-> Percept(h.next, "supports", obj, other, c.val, 0,
                   SupportsActivity(c.val), "supporting")])

\* new ObjectNode.attrs[key](obj)
NewAttr(h, key, obj) ==
  IF key = "on_ground" THEN OnGroundAttribute(h, obj) ELSE NewAttr0(h, key, obj)

\* new ObjectNode.rels[key](obj, other)
NewRel(h, key, obj, other) ==
  CASE key = "on_top_of" -> OnTopRelationship(h, obj, other)
    [] key = "supports" -> SupportsRelationship(h, obj, other)
    [] OTHER -> NewRel0(h, key, obj, other)

\* getAttr without the redirection of constant attributes to 'start'
getAttr_anytime(h, n, key, opts) ==
  LET t == IF opts.time = NoTime THEN h.curr ELSE opts.time
  IN IF HasKey(h.times[n], t, key)
     THEN [h |-> h, kind |-> "percept", res |-> <<h.times[n][t][key]>>]
     ELSE IF opts.cache_only THEN [h |-> h, kind |-> "false", res |-> <<>>]
     ELSE
       Then(NewAttr(Goto(h, t), key, n), LAMBDA c :
         [h |-> IF t # NoTime THEN CacheAttr(c.h, n, t, key, c.p) ELSE c.h,
          kind |-> "percept", res |-> <<c.p>>])

\* ObjectNode.prototype.getAttr
getAttr(h, n, key, opts) ==
  AttrGot(h, n, key, opts, NewAttr(Goto(h, AttrTime(h, key, opts)), key, n))

\* getRel that treats a cached list without the requested other as cached
\* elsewhere: cache_only is honoured only when the key has no list at all
getRel_listonly(h, n, key, opts) ==
  LET t == RelTime(h, key, opts)
      cached == HasKey(h.times[n], t, key)
      cache == IF cached THEN h.times[n][t][key] ELSE <<>>
      found == SelectSeq(cache, LAMBDA rel : rel.other = opts.other)
  IN IF cached /\ opts.get_all
     THEN [h |-> h, kind |-> "list", res |-> cache]
     ELSE IF cached /\ Len(found) > 0
     THEN [h |-> h, kind |-> "percept", res |-> <<found[1]>>]
     ELSE IF opts.cache_only /\ ~cached
     THEN [h |-> h, kind |-> IF opts.get_all THEN "list" ELSE "false", res |-> <<>>]
     ELSE
       Then(NewRel(Goto(h, t), key, n, opts.other), LAMBDA c :
         [h |-> IF t # NoTime THEN CacheRel(c.h, n, t, key, c.p) ELSE c.h,
          kind |-> "percept", res |-> <<c.p>>])

\* ObjectNode.prototype.getRel
getRel(h, n, key, opts) ==
  RelGot(h, n, key, opts, NewRel(Goto(h, RelTime(h, key, opts)), key, n, opts.other))

\* ObjectNode.prototype.get
get(h, n, key, opts) ==
  IF key \in Range(ObjAttrKeys) THEN getAttr(h, n, key, opts)
  ELSE IF key \in Range(ObjRelKeys) THEN getRel(h, n, key, opts)
  ELSE [h |-> h, kind |-> "throw", res |-> <<>>]

RECURSIVE PerceiveAttrs(_, _, _, _), PerceiveOthers(_, _, _, _, _, _), PerceiveRels(_, _, _, _, _)

\* the first loop of perceive: res[a] = new attr(this.obj) for every attribute
PerceiveAttrs(h, n, i, res) ==
  IF i > Len(ObjAttrKeys) THEN [h |-> h, res |-> res]
  ELSE Then(NewAttr(h, ObjAttrKeys[i], n),
            LAMBDA c : PerceiveAttrs(c.h, n, i + 1, Put(res, ObjAttrKeys[i], c.p)))

\* the inner loop of perceive: one relation to every other node in objs
PerceiveOthers(h, n, key, os, j, list) ==
  IF j > Len(os) THEN [h |-> h, list |-> list]
  ELSE IF os[j] = n THEN PerceiveOthers(h, n, key, os, j + 1, list)
  ELSE Then(NewRel(h, key, n, os[j]),
            LAMBDA c : PerceiveOthers(c.h, n, key, os, j + 1, Append(list, c.p)))

\* the second loop of perceive; an empty list is deleted again
PerceiveRels(h, n, os, i, res) ==
  IF i > Len(ObjRelKeys) THEN [h |-> h, res |-> res]
  ELSE Then(PerceiveOthers(h, n, ObjRelKeys[i], os, 1, <<>>),
            LAMBDA c : PerceiveRels(c.h, n, os, i + 1,
                                    IF Len(c.list) = 0 THEN res
                                    ELSE Put(res, ObjRelKeys[i], c.list)))

\* ObjectNode.prototype.perceive: this.times[time] = res
perceive(h, n, os, time) ==
  Then(PerceiveAttrs(h, n, 1, EmptyTimes), LAMBDA a :
  Then(PerceiveRels(a.h, n, os, 1, a.res), LAMBDA r :
    Emit([r.h EXCEPT !.times[n] = Put(@, time, r.res)], "store", time, n)))

----------------------------------------------------------------------------
\* GroupNode

CountLabel(val) ==
  CASE val = 0 -> "0" [] val = 1 -> "1" [] val = 2 -> "2" [] val = 3 -> "3"
    [] OTHER -> ">=4"

CountAttribute(h, gobjs) ==
  [h |-> Alloc(h, "count", NoOther),
   p |-> Percept(h.next, "count", NoOther, NoOther, "", Len(gobjs), 10,
                 CountLabel(Len(gobjs)))]

\* the longest edge of the minimum spanning tree over the pairwise distances:
\* the least d such that the edges of length <= d connect the group
Connects(h, gobjs, d) ==
  LET N == 1..Len(gobjs)
      Edge(i, j) == i # j /\ Val(h.curr, "dist", gobjs[Max(i, j)], gobjs[IF i < j THEN i ELSE j]) <= d
      R[k \in 0..Len(gobjs)] ==
        IF k = 0 THEN {1}
        ELSE R[k-1] \cup {j \in N : \E i \in R[k-1] : Edge(i, j)}
  IN R[Len(gobjs)] = N

MSTLastEdge(h, gobjs) ==
  LET N == 1..Len(gobjs)
      D == {Val(h.curr, "dist", gobjs[p[1]], gobjs[p[2]]) :
              p \in {q \in N \X N : q[1] > q[2]}}
  IN CHOOSE d \in D : Connects(h, gobjs, d) /\ \A e \in D : Connects(h, gobjs, e) => d <= e

TouchAttribute(h, gobjs) ==
  LET val == IF Len(gobjs) < 2 THEN 100 ELSE MSTLastEdge(h, gobjs)
  IN [h |-> Alloc(h, "touching", NoOther),
      p |-> Percept(h.next, "touching", NoOther, NoOther, "", val,
                    TouchMembership(val), "touching")]

NewGroupAttr(h, key, gobjs) ==
  CASE key = "count" -> CountAttribute(h, gobjs)
    [] key = "touching" -> TouchAttribute(h, gobjs)

\* getAttr of a group falling back to 'start' when no state is current
groupGetAttr_start(h, key, opts) ==
  LET t0 == IF opts.time # NoTime THEN opts.time
            ELSE IF h.curr = NoTime THEN "start" ELSE h.curr
      t == IF GroupAttrConstant(key) THEN "start" ELSE t0
  IN IF HasKey(h.gtimes, t, key)
     THEN [h |-> h, kind |-> "percept", res |-> <<h.gtimes[t][key]>>]
     ELSE IF opts.cache_only THEN [h |-> h, kind |-> "false", res |-> <<>>]
     ELSE
       Then(NewGroupAttr(Goto(h, t), key, h.gobjs), LAMBDA c :
         [h |-> IF t # NoTime
                THEN Emit([c.h EXCEPT !.gtimes = PutKey(@, t, key, c.p)],
                          "insert", key, NoOther)
                ELSE c.h,
          kind |-> "percept", res |-> <<c.p>>])

\* GroupNode.prototype.getAttr
groupGetAttr(h, key, opts) ==
  LET t0 == IF opts.time = NoTime THEN h.curr ELSE opts.time
      t == IF GroupAttrConstant(key) THEN "start" ELSE t0
  IN IF HasKey(h.gtimes, t, key)
     THEN [h |-> h, kind |-> "percept", res |-> <<h.gtimes[t][key]>>]
     ELSE IF opts.cache_only THEN [h |-> h, kind |-> "false", res |-> <<>>]
     ELSE
       Then(NewGroupAttr(Goto(h, t), key, h.gobjs), LAMBDA c :
         [h |-> IF t # NoTime
                THEN Emit([c.h EXCEPT !.gtimes = PutKey(@, t, key, c.p)],
                          "insert", key, NoOther)
                ELSE c.h,
          kind |-> "percept", res |-> <<c.p>>])

----------------------------------------------------------------------------
\* Scenes

AllStates == {NoTime, "start", "end", "current"}

AtAll(key, a, b, v) == [q \in {<<s, key, a, b>> : s \in AllStates} |-> v]
At(s, key, a, b, v) == (<<s, key, a, b>> :> v)

Pushes(ctx, obj) == {<<ctx, obj, d, m>> : d \in {"left", "right"}, m \in BOOLEAN}

\* 2 rests on 1, 1 rests on the ground; 2 falls when 1 is taken away
Tower ==
  [val |-> AtAll("dist", 2, 0, 20) @@ AtAll("dist", 0, 2, 20)
           @@ AtAll("above", 2, 1, 10) @@ AtAll("below", 1, 2, 10)
           @@ AtAll("close", 1, 2, 10) @@ AtAll("close", 2, 1, 10)
           @@ AtAll("left_pos", 1, NoOther, 10) @@ AtAll("left_pos", 2, NoOther, 10),
   shape |-> [s \in Shapes |-> IF s = 1 THEN "rectangle" ELSE IF s = 2 THEN "circle" ELSE "unknown"],
   static |-> {Ground},
   fast |-> {},
   pass |-> Pushes(NoOther, 1) \cup Pushes(NoOther, 2) \cup Pushes(2, 1)
            \cup {<<1, 2, "left", TRUE>>, <<1, 2, "right", TRUE>>},
   mvw |-> {<<1, 2>>, <<0, 1>>, <<0, 2>>},
   collisions |-> <<>>,
   shapes |-> <<1, 2, 0>>,
   movable |-> {1, 2}]

\* 1 falls at the start, hits 2 and the ground, and comes to rest beside 2;
\* 2 stands on the ground and tips over once 1 is taken away
Lean ==
  [val |-> AtAll("dist", 1, 2, 2) @@ AtAll("dist", 2, 1, 2)
           @@ At("start", "dist", 1, 0, 30) @@ At("start", "dist", 0, 1, 30)
           @@ At("start", "moves", 1, NoOther, 10)
           @@ AtAll("close", 1, 2, 10) @@ AtAll("close", 2, 1, 10)
           @@ At("end", "left_pos", 1, NoOther, 4) @@ At("start", "left_pos", 1, NoOther, 5),
   shape |-> [s \in Shapes |-> IF s = 1 THEN "square" ELSE IF s = 2 THEN "triangle" ELSE "unknown"],
   static |-> {Ground},
   fast |-> {<<"start", 1>>},
   pass |-> Pushes(NoOther, 2) \cup {<<NoOther, 1, "left", TRUE>>, <<NoOther, 1, "right", TRUE>>,
                                     <<NoOther, 1, "left", FALSE>>},
   mvw |-> {<<0, 1>>, <<0, 2>>},
   collisions |-> <<[a |-> [master_obj |-> 1], b |-> [master_obj |-> 2], dv |-> 3],
                    [a |-> [master_obj |-> 1], b |-> [master_obj |-> 0], dv |-> 0]>>,
   shapes |-> <<1, 2, 0>>,
   movable |-> {1, 2}]

Worlds == {Tower, Lean}

H0 ==
  [times |-> times, gtimes |-> gtimes, gobjs |-> objs, curr |-> curr_state,
   next |-> nextId, log |-> <<>>, depth |-> 0, collisions |-> collisions]

Call(op, n, key, opts, kind, res) ==
  [op |-> op, n |-> n, key |-> key, opts |-> opts, kind |-> kind, res |-> res,
   pre |-> times, gpre |-> gtimes, pre_curr |-> curr_state, pre_objs |-> objs]

\* the handler state becomes the program state
Commit(h) ==
  /\ times' = h.times
  /\ gtimes' = h.gtimes
  /\ curr_state' = h.curr
  /\ nextId' = h.next
  /\ log' = h.log
  /\ collisions' = h.collisions

\* no Selector, no matcher and no GroupNode has been constructed
NoObjects ==
  [sels |-> <<>>, ams |-> <<>>, rms |-> <<>>, origin |-> <<>>, failed |-> {},
   groups |-> <<>>, caches |-> <<>>]

InitScene ==
  /\ heap = NoObjects
  /\ fits_solution = "undefined"
  /\ objs = <<>>
  /\ hasNode = {}
  /\ times = [s \in Shapes |-> EmptyTimes]
  /\ gtimes = EmptyTimes
  /\ collisions = <<>>
  /\ curr_state = NoTime
  /\ nextId = 1
  /\ log = <<>>
  /\ call = Call("init", NoOther, "", NoOpts, "", <<>>)
  /\ ops = 0

\* no Solution has been constructed
NoSolution == [main_side |-> ""]

Init ==
  /\ world \in Worlds
  /\ InitScene
  /\ sol = NoSolution

RECURSIVE Register(_, _, _)
\* the loop of registerObjects over the movable shapes
Register(os, nodes, i) ==
  IF i > Len(world.shapes) THEN os
  ELSE IF world.shapes[i] \in world.movable /\ world.shapes[i] \notin nodes
       THEN Register(Append(os, world.shapes[i]), nodes, i + 1)
       ELSE Register(os, nodes, i + 1)

\* SceneNode.prototype.init: this.ground is the shape with id '_', this.frame
\* the one with id '|' (none: {})
ground == {s \in Range(world.shapes) \ world.movable : s = Ground}
frame == {s \in Range(world.shapes) \ world.movable : s = Frame}

\* the movable shapes and the ground get an ObjectNode, the frame none
registerObjects(os, nodes) ==
  [objs |-> Register(os, nodes, 1), hasNode |-> nodes \cup world.movable \cup ground]

\* SceneNode.prototype.registerObjects
RegisterObjects ==
  /\ hasNode = {}
  /\ LET r == registerObjects(objs, hasNode)
     IN /\ objs' = r.objs
        /\ hasNode' = r.hasNode
  /\ call' = Call("registerObjects", NoOther, "", NoOpts, "", <<>>)
  /\ log' = <<>>
  /\ UNCHANGED <<world, times, gtimes, collisions, curr_state, nextId, ops, sol, heap, fits_solution>>

\* oracle.gotoState(name), called by the application between perceptions
GotoState(name) ==
  /\ ops < MaxOps
  /\ hasNode # {}
  /\ Commit(gotoState(H0, name))
  /\ call' = Call("gotoState", NoOther, name, NoOpts, "", <<>>)
  /\ ops' = ops + 1
  /\ UNCHANGED <<world, objs, hasNode, sol, heap, fits_solution>>

\* node.get(key, {time, other, cache_only, get_all}) on the ObjectNode of
\* shape n
Get(n, key, time, other, cache_only, get_all) ==
  /\ ops < MaxOps
  /\ n \in hasNode
  /\ other # NoOther => other \in hasNode
  /\ \E opts \in {Opts(time, other, cache_only, get_all)} :
       \E r \in {get(H0, n, key, opts)} :
         /\ Commit(r.h)
         /\ call' = Call("get", n, key, opts, r.kind, r.res)
  /\ ops' = ops + 1
  /\ UNCHANGED <<world, objs, hasNode, sol, heap, fits_solution>>

\* group.get(key, {time, cache_only}) on the group of all objects of the scene
GroupGet(key, time, cache_only) ==
  /\ ops < MaxOps
  /\ hasNode # {}
  /\ \E opts \in {Opts(time, NoOther, cache_only, FALSE)} :
       \E r \in {groupGetAttr(H0, key, opts)} :
         /\ Commit(r.h)
         /\ call' = Call("groupGet", NoOther, key, opts, r.kind, r.res)
  /\ ops' = ops + 1
  /\ UNCHANGED <<world, objs, hasNode, sol, heap, fits_solution>>

\* node.perceive(time) on the ObjectNode of shape n
Perceive(n, time) ==
  /\ ops < MaxOps
  /\ n \in hasNode
  /\ Commit(perceive(H0, n, objs, time))
  /\ call' = Call("perceive", n, "", Opts(time, NoOther, FALSE, FALSE), "", <<>>)
  /\ ops' = ops + 1
  /\ UNCHANGED <<world, objs, hasNode, sol, heap, fits_solution>>

RECURSIVE PerceiveEach(_, _, _, _)
PerceiveEach(h, os, i, time) ==
  IF i > Len(os) THEN h
  ELSE Then(perceive(h, os[i], os, time),
            LAMBDA h1 : PerceiveEach(h1, os, i + 1, time))

\* SceneNode.prototype.perceiveCurrent
perceiveCurrent(h, os, state_name) ==
  PerceiveEach(h, os, 1, IF state_name = NoTime THEN "current" ELSE state_name)

PerceiveCurrent(state_name) ==
  /\ ops < MaxOps
  /\ LET r == registerObjects(objs, hasNode)
     IN /\ objs' = r.objs
        /\ hasNode' = r.hasNode
        /\ Commit(perceiveCurrent(H0, r.objs, state_name))
  /\ call' = Call("perceiveCurrent", NoOther, "", Opts(state_name, NoOther, FALSE, FALSE), "", <<>>)
  /\ ops' = ops + 1
  /\ UNCHANGED <<world, sol, heap, fits_solution>>

\* perceiveCollisions without the gotoState('start')
perceiveCollisions_unplaced(h) ==
  [Emit(h, "observeCollisions", "", NoOther) EXCEPT !.collisions =
     [i \in 1..Len(world.collisions) |->
        [world.collisions[i] EXCEPT !.a = world.collisions[i].a.master_obj,
                                    !.b = world.collisions[i].b.master_obj]]]

\* SceneNode.prototype.perceiveCollisions
perceiveCollisions(h) ==
  LET h1 == Emit(gotoState(h, "start"), "observeCollisions", "", NoOther)
      cs == world.collisions
  IN [h1 EXCEPT !.collisions =
        [i \in 1..Len(cs) |-> [cs[i] EXCEPT !.a = cs[i].a.master_obj,
                                           !.b = cs[i].b.master_obj]]]

RECURSIVE PerceiveTimes(_, _, _)
PerceiveTimes(h, os, t) ==
  IF t > Len(SceneTimes) THEN h
  ELSE Then(perceiveCurrent(gotoState(h, SceneTimes[t]), os, SceneTimes[t]),
            LAMBDA h1 : PerceiveTimes(h1, os, t + 1))

\* SceneNode.prototype.perceiveAll
PerceiveAll ==
  /\ ops < MaxOps
  /\ LET r == registerObjects(objs, hasNode)
     IN /\ objs' = r.objs
        /\ hasNode' = r.hasNode
        /\ Commit(PerceiveTimes(perceiveCollisions(H0), r.objs, 1))
  /\ call' = Call("perceiveAll", NoOther, "", NoOpts, "", <<>>)
  /\ ops' = ops + 1
  /\ UNCHANGED <<world, sol, heap, fits_solution>>

TimeArgs == {NoTime, "start", "end"}

\* the calls an application makes: every attribute; the relations to the other
\* object (above, below and close are reached through on_top_of and supports)
\* and touch to the ground; the group attributes; the eager perceptions
Next ==
  \/ RegisterObjects
  \/ \E name \in {"start", "end"} : GotoState(name)
  \/ \E key \in Range(ObjAttrKeys), t \in TimeArgs, co \in BOOLEAN :
       Get(1, key, t, NoOther, co, FALSE)
  \/ \E ko \in ({"touch", "hits", "on_top_of", "supports"} \X {2}) \cup {<<"touch", Ground>>},
        t \in TimeArgs, co \in BOOLEAN :
       Get(1, ko[1], t, ko[2], co, FALSE)
  \/ \E key \in {"touch", "hits"}, t \in {NoTime, "start"} :
       Get(1, key, t, NoOther, TRUE, TRUE)
  \/ \E key \in Range(GroupAttrKeys), t \in {NoTime, "end"}, co \in BOOLEAN :
       GroupGet(key, t, co)
  \/ \E n \in world.movable, t \in {"start", "end"} : Perceive(n, t)
  \/ \E t \in {NoTime, "start"} : PerceiveCurrent(t)
  \/ PerceiveAll

Spec == Init /\ [][Next]_vars

----------------------------------------------------------------------------
\* What the claims are stated over

\* the entries of the caches: one per attribute slot, one per list element
EntrySet(tms) ==
  UNION {UNION {UNION {IF k \in Range(ObjRelKeys)
                       THEN {<<n, t, k, i>> : i \in 1..Len(tms[n][t][k])}
                       ELSE {<<n, t, k, 0>>} :
                       k \in DOMAIN tms[n][t]} :
                t \in DOMAIN tms[n]} :
         n \in DOMAIN tms}

GroupEntrySet(gt) == UNION {{<<t, k>> : k \in DOMAIN gt[t]} : t \in DOMAIN gt}

\* the percept objects held by one node under one time key
IdsUnder(tm, t) ==
  IF t \notin DOMAIN tm THEN {}
  ELSE UNION {IF k \in Range(ObjRelKeys)
              THEN {tm[t][k][i].id : i \in 1..Len(tm[t][k])}
              ELSE {tm[t][k].id} : k \in DOMAIN tm[t]}

Added == EntrySet(times) \ EntrySet(call.pre)
GroupAdded == GroupEntrySet(gtimes) \ GroupEntrySet(call.gpre)

IsGet == call.op = "get"
IsGroupGet == call.op = "groupGet"
IsRelKey(key) == key \in Range(ObjRelKeys)

KeyConstant(op, key) ==
  IF op = "groupGet" THEN GroupAttrConstant(key)
  ELSE IF IsRelKey(key) THEN RelConstant(key) ELSE AttrConstant(key)

\* the state the last call started in
PreH == [H0 EXCEPT !.times = call.pre, !.gtimes = call.gpre, !.curr = call.pre_curr]

Events(e) == {i \in DOMAIN log : log[i].e = e}

----------------------------------------------------------------------------
\* Claims about the caches

PlainGet == (IsGet \/ IsGroupGet) /\ ~call.opts.cache_only /\ ~call.opts.get_all

\* the last call made once more, in the state h, with other options
Redo(h, opts) ==
  IF IsGet THEN get(h, call.n, call.key, opts) ELSE groupGetAttr(h, call.key, opts)

CachedIds(t) ==
  UNION {IdsUnder(times[n], t) : n \in Shapes}
    \cup (IF t \in DOMAIN gtimes THEN {gtimes[t][k].id : k \in DOMAIN gtimes[t]} ELSE {})

ConstantGet == PlainGet /\ KeyConstant(call.op, call.key) /\ call.opts.time # NoTime

\* C1: a get of a constant feature at a named time returns a percept that any
\* further get at either named time returns again (the same object), and that
\* object is held under the 'start' key of the caches and under no other key
C1_Constancy ==
  ConstantGet =>
    /\ call.kind = "percept"
    /\ \A T2 \in Range(SceneTimes) :
         LET again == Redo(H0, [call.opts EXCEPT !.time = T2])
         IN again.kind = "percept" /\ again.res = call.res
    /\ call.res[1].id \in CachedIds("start")
    /\ \A t \in AllStates \ {"start"} : call.res[1].id \notin CachedIds(t)

\* a constant feature asked for at 'end' is answered from what an earlier get
\* or perception left under 'start'
C1_Witness ==
  /\ ConstantGet
  /\ call.opts.time = "end"
  /\ Redo(PreH, [call.opts EXCEPT !.time = "start", !.cache_only = TRUE]).kind = "percept"
  /\ call.kind = "percept"

AllKeys == Range(ObjAttrKeys) \cup Range(ObjRelKeys)

\* C2: whatever a cache_only get returned before the last call, the same
\* cache_only get returns after it: nothing is evicted or replaced
C2_NothingEvicted ==
  \A n \in hasNode, t \in Range(SceneTimes), key \in AllKeys :
  \A o \in (IF IsRelKey(key) THEN Shapes \ {n} ELSE {NoOther}) :
    LET before == get(PreH, n, key, Opts(t, o, TRUE, FALSE))
        after == get(H0, n, key, Opts(t, o, TRUE, FALSE))
    IN before.kind = "percept" => after.kind = "percept" /\ after.res = before.res

NamedGet == PlainGet /\ call.opts.time # NoTime

WasMiss == Redo(PreH, [call.opts EXCEPT !.cache_only = TRUE]).kind = "false"

EntriesAdded == Cardinality(Added) + Cardinality(GroupAdded)

\* C3 as stated: a get on a named time adds exactly one cache entry when it
\* misses and none when it hits, whatever the feature
C3_OneEntryPerMiss ==
  NamedGet => EntriesAdded = (IF WasMiss THEN 1 ELSE 0)

\* the entries of the requested key in the cache of the node that was asked
OwnAdded ==
  IF IsGet THEN {e \in Added : e[1] = call.n /\ e[3] = call.key}
  ELSE {e \in GroupAdded : e[2] = call.key}

\* the features whose perception gets other features
NestingKeys == {"on_ground", "on_top_of", "supports"}

\* the percepts built by a get (the requested one and those of nested gets):
\* what is built inside a sandbox frame is built without a get
BuiltByGet == {i \in Events("new") : log[i].d = 0}

\* C3 amended: a get on a named time that hits adds no entry; one that misses
\* adds exactly one entry for the requested key to the node it is called on,
\* plus one entry per nested get that misses; a feature whose perception gets
\* no other feature adds exactly one entry in total; no entry is removed
C3_MissAddsOwnEntry ==
  NamedGet =>
    /\ EntrySet(call.pre) \subseteq EntrySet(times)
    /\ GroupEntrySet(call.gpre) \subseteq GroupEntrySet(gtimes)
    /\ ~WasMiss => EntriesAdded = 0
    /\ WasMiss =>
         /\ Cardinality(OwnAdded) = 1
         /\ EntriesAdded = Cardinality(BuiltByGet)
         /\ call.key \notin NestingKeys => EntriesAdded = 1

\* on_ground missed and brought its touch relation to the ground with it
C3_Witness ==
  /\ NamedGet
  /\ WasMiss
  /\ call.key = "on_ground"
  /\ EntriesAdded = 2
  /\ <<call.n, call.opts.time, "touch", 1>> \in Added

UnsetGet == PlainGet /\ call.opts.time = NoTime /\ call.pre_curr = NoTime

\* the percept was built and returned without the oracle or the caches
\* being touched
BuiltOnly ==
  /\ call.kind = "percept"
  /\ \E i \in Events("new") : log[i].a = call.key
  /\ Events("goto") = {}
  /\ times = call.pre
  /\ gtimes = call.gpre

MovesCached(n) == HasKey(call.pre[n], "start", "moves")

CacheOnlyGet == (IsGet \/ IsGroupGet) /\ call.opts.cache_only

EffTime ==
  IF KeyConstant(call.op, call.key) THEN "start"
  ELSE IF call.opts.time = NoTime THEN call.pre_curr ELSE call.opts.time

PreCache == IF IsGet THEN call.pre[call.n] ELSE call.gpre

NoEntryForOther ==
  /\ IsGet /\ IsRelKey(call.key) /\ ~call.opts.get_all
  /\ HasKey(PreCache, EffTime, call.key)
  /\ \A i \in DOMAIN PreCache[EffTime][call.key] :
       PreCache[EffTime][call.key][i].other # call.opts.other

CacheMiss == ~HasKey(PreCache, EffTime, call.key) \/ NoEntryForOther

\* C5: a cache_only get that misses (no entry for the key, or for a relation
\* no entry for the requested other in the list of the key) returns false, or
\* the empty list for a relation asked with get_all; it builds no percept,
\* does not call gotoState and leaves the caches as they were
C5_CacheOnlyMiss ==
  (CacheOnlyGet /\ CacheMiss) =>
    /\ call.kind = (IF IsGet /\ IsRelKey(call.key) /\ call.opts.get_all THEN "list" ELSE "false")
    /\ call.res = <<>>
    /\ log = <<>>
    /\ times = call.pre
    /\ gtimes = call.gpre
    /\ curr_state = call.pre_curr

\* the list of the key holds the relation to another object only
C5_Witness ==
  /\ CacheOnlyGet
  /\ NoEntryForOther
  /\ call.kind = "false"

\* the pop that closes the frame opened at i
Closing(i) ==
  CHOOSE j \in DOMAIN log :
    /\ j > i /\ log[j].e = "pop" /\ log[j].d = log[i].d
    /\ \A k \in DOMAIN log : (k > i /\ k < j) => ~(log[k].e = "pop" /\ log[k].d = log[i].d)

\* C6: no cache insert happens while a sandbox frame is open, and the caches
\* are the same when a frame closes as when it opened
C6_NoInsertInSandbox ==
  \A i \in DOMAIN log :
    /\ log[i].e = "insert" => log[i].d = 0
    /\ log[i].e = "push" =>
         /\ \E j \in DOMAIN log : j > i /\ log[j].e = "pop" /\ log[j].d = log[i].d
         /\ log[Closing(i)].snap = log[i].snap

\* supports ran its stability probe: a percept built inside the frame that
\* deactivates the supporter, with the impulse frames nested in it
C6_Witness ==
  /\ IsGet
  /\ call.key = "supports"
  /\ \E i \in Events("new") : log[i].a = "stability" /\ log[i].d = 1
  /\ \E i \in Events("push") : log[i].d = 2
  /\ Events("insert") # {}

----------------------------------------------------------------------------
\* Selectors and their matchers

MaxMatches == 2

\* new Selector.AttrMatcher(key, label, active, time): time || 'start'
AttrMatcher(key, label, active, time) ==
  [key |-> key, label |-> label, active |-> active,
   type |-> IF key \in Range(ObjAttrKeys) THEN "object" ELSE "group",
   time |-> IF time = NoTime THEN "start" ELSE time]

\* new Selector.RelMatcher(other_sel, key, label, active, time)
RelMatcher(other_sel, key, label, active, time) ==
  [other_sel |-> other_sel, key |-> key, label |-> label, active |-> active,
   time |-> IF time = NoTime THEN "start" ELSE time]

Selector(obj_attrs, rels, unique) ==
  [obj_attrs |-> obj_attrs, rels |-> rels, unique |-> unique]

\* matches with the activity compared by > instead of >=
AttrMatcher_matches_gt(h, m, node) ==
  Then(getAttr(h, node, m.key, Opts(m.time, NoOther, FALSE, FALSE)), LAMBDA attr :
    IF attr.kind # "percept" THEN [h |-> attr.h, ok |-> FALSE]
    ELSE LET active == attr.res[1].act > activation_threshold
         IN [h |-> attr.h, ok |-> (active = m.active) /\ attr.res[1].label = m.label])

\* Selector.AttrMatcher.prototype.matches
AttrMatcher_matches(h, m, node) ==
  Then(getAttr(h, node, m.key, Opts(m.time, NoOther, FALSE, FALSE)), LAMBDA attr :
    IF attr.kind # "percept" THEN [h |-> attr.h, ok |-> FALSE]
    ELSE LET active == attr.res[1].act >= activation_threshold
         IN [h |-> attr.h, ok |-> (active = m.active) /\ attr.res[1].label = m.label])

\* test_fn of RelMatcher.matches
test_fn(h, self, node, other) ==
  IF other = node THEN [h |-> h, ok |-> FALSE]
  ELSE
    Then(getRel(h, node, self.key, Opts(self.time, other, FALSE, FALSE)), LAMBDA rel :
      IF rel.kind # "percept" THEN [h |-> rel.h, ok |-> FALSE]
      ELSE LET active == rel.res[1].act >= activation_threshold
           IN [h |-> rel.h, ok |-> (active = self.active) /\ rel.res[1].label = self.label])

RECURSIVE EveryAttr(_, _, _, _)
\* this.obj_attrs.every(attr => attr.matches(object)), stopping at the first
\* matcher that fails
EveryAttr(h, attrs, i, object) ==
  IF i > Len(attrs) THEN [h |-> h, ok |-> TRUE]
  ELSE Then(AttrMatcher_matches(h, attrs[i], object),
            LAMBDA r : IF r.ok THEN EveryAttr(r.h, attrs, i + 1, object) ELSE r)

\* Selector.prototype.matchesObject(object, null, test_fn) as match_fn of
\* RelMatcher.matches calls it
matchesObject(h, sel, object, self, node) ==
  Then(EveryAttr(h, sel.obj_attrs, 1, object),
       LAMBDA r : IF r.ok THEN test_fn(r.h, self, node, object) ELSE r)

RECURSIVE FilterOthers(_, _, _, _, _, _)
\* others.filter(match_fn)
FilterOthers(h, self, node, others, i, acc) ==
  IF i > Len(others) THEN [h |-> h, matching |-> acc]
  ELSE Then(matchesObject(h, self.other_sel, others[i], self, node),
            LAMBDA r : FilterOthers(r.h, self, node, others, i + 1,
                                    IF r.ok THEN Append(acc, others[i]) ELSE acc))

\* `others` was not passed
NoOthers == <<NoOther>>

\* matches without the requirement of a unique partner
RelMatcher_matches_any(h, self, node, others) ==
  IF Len(self.other_sel.rels) > 0 THEN [h |-> h, kind |-> "throw", res |-> <<>>]
  ELSE
    LET os == IF others = NoOthers
              THEN SelectSeq(h.gobjs, LAMBDA on : on # node) ELSE others
    IN Then(FilterOthers(h, self, node, os, 1, <<>>), LAMBDA f :
         [h |-> f.h, kind |-> "bool",
          res |-> <<IF ~self.active THEN Len(f.matching) = Len(os)
                    ELSE Len(f.matching) > 0>>])

\* matches without the test of other_sel for relation matchers
RelMatcher_matches_nested(h, self, node, others) ==
  LET os == IF others = NoOthers
            THEN SelectSeq(h.gobjs, LAMBDA on : on # node) ELSE others
  IN Then(FilterOthers(h, self, node, os, 1, <<>>), LAMBDA f :
       [h |-> f.h, kind |-> "bool",
        res |-> <<IF ~self.active THEN Len(f.matching) = Len(os)
                  ELSE IF self.other_sel.unique /\ Len(f.matching) # 1 THEN FALSE
                  ELSE Len(f.matching) > 0>>])

\* Selector.RelMatcher.prototype.matches
RelMatcher_matches(h, self, node, others) ==
  IF Len(self.other_sel.rels) > 0 THEN [h |-> h, kind |-> "throw", res |-> <<>>]
  ELSE
    LET os == IF others = NoOthers
              THEN SelectSeq(h.gobjs, LAMBDA on : on # node) ELSE others
    IN Then(FilterOthers(h, self, node, os, 1, <<>>), LAMBDA f :
         [h |-> f.h, kind |-> "bool",
          res |-> <<IF ~self.active THEN Len(f.matching) = Len(os)
                    ELSE IF self.other_sel.unique /\ Len(f.matching) # 1 THEN FALSE
                    ELSE Len(f.matching) > 0>>])

\* Three objects beside each other on the ground.  How close 1 is to 2 and to
\* 3 at the start, how far left it is, and the shapes of 2 and 3 vary; at the
\* end 1 has moved next to 2 and away from 3.
MatchWorld(s2, s3, c2, c3) ==
  [val |-> At("start", "close", 1, 2, c2) @@ At("start", "close", 1, 3, c3)
           @@ At("end", "close", 1, 2, 10) @@ At("end", "close", 1, 3, 0)
           @@ At("start", "left_pos", 1, NoOther, c2) @@ At("end", "left_pos", 1, NoOther, 4)
           @@ AtAll("dist", 1, 2, 20) @@ AtAll("dist", 1, 3, 20),
   shape |-> [s \in Shapes |-> CASE s = 1 -> "square" [] s = 2 -> s2 [] s = 3 -> s3
                                [] OTHER -> "unknown"],
   static |-> {Ground},
   fast |-> {},
   pass |-> Pushes(NoOther, 1) \cup Pushes(NoOther, 2) \cup Pushes(NoOther, 3),
   mvw |-> {},
   collisions |-> <<>>,
   shapes |-> <<1, 2, 3, 0>>,
   movable |-> {1, 2, 3}]

Activities == {4, 5}

MatchWorlds ==
  {MatchWorld(s2, s3, c2, c3) :
     s2 \in {"circle", "rectangle"}, s3 \in {"circle", "rectangle"},
     c2 \in Activities, c3 \in Activities \cup {0}}

MatchCall(op, node, m, others, kind, res) ==
  [op |-> op, n |-> node, m |-> m, others |-> others, kind |-> kind, res |-> res,
   pre |-> times, gpre |-> gtimes, pre_curr |-> curr_state, pre_objs |-> objs]

\* m.matches(node) for m = new AttrMatcher(key, label, active, time)
MatchAttr(node, key, label, active, time) ==
  /\ ops < MaxMatches
  /\ node \in hasNode
  /\ \E m \in {AttrMatcher(key, label, active, time)} :
       \E r \in {AttrMatcher_matches(H0, m, node)} :
         /\ Commit(r.h)
         /\ call' = MatchCall("attrMatches", node, m, NoOthers, "bool", <<r.ok>>)
  /\ ops' = ops + 1
  /\ UNCHANGED <<world, objs, hasNode, sol, heap, fits_solution>>

\* m.matches(node, others) for m = new RelMatcher(other_sel, key, label,
\* active, time)
MatchRel(node, other_sel, key, label, active, time, others) ==
  /\ ops < MaxMatches
  /\ node \in hasNode
  /\ others # NoOthers => Range(others) \subseteq hasNode
  /\ \E m \in {RelMatcher(other_sel, key, label, active, time)} :
       \E r \in {RelMatcher_matches(H0, m, node, others)} :
         /\ Commit(r.h)
         /\ call' = MatchCall("relMatches", node, m, others, r.kind, r.res)
  /\ ops' = ops + 1
  /\ UNCHANGED <<world, objs, hasNode, sol, heap, fits_solution>>

Blank == Selector(<<>>, <<>>, FALSE)
Circles == Selector(<<AttrMatcher("shape", "circle", TRUE, NoTime)>>, <<>>, FALSE)
OneCircle == Selector(<<AttrMatcher("shape", "circle", TRUE, NoTime)>>, <<>>, TRUE)
CloseToAny == Selector(<<>>, <<RelMatcher(Blank, "close", "close", TRUE, NoTime)>>, FALSE)

MatchInit ==
  /\ world \in MatchWorlds
  /\ InitScene
  /\ sol = NoSolution

MatchNext ==
  \/ RegisterObjects
  \/ \E active \in BOOLEAN, time \in {NoTime, "end"} :
       MatchAttr(1, "left_pos", "left", active, time)
  \/ \E active \in BOOLEAN : MatchAttr(2, "shape", "circle", active, NoTime)
  \/ \E other_sel \in {Blank, Circles, OneCircle}, active \in BOOLEAN,
        time \in {NoTime, "end"}, others \in {NoOthers, <<>>, <<3, 1>>} :
       MatchRel(1, other_sel, "close", "close", active, time, others)
  \/ \E active \in BOOLEAN, time \in {NoTime, "end"}, others \in {NoOthers, <<3, 1>>} :
       MatchRel(1, CloseToAny, "close", "close", active, time, others)

MatchSpec == MatchInit /\ [][MatchNext]_vars

----------------------------------------------------------------------------
\* Claims about the matchers

IsAttrMatch == call.op = "attrMatches"
IsRelMatch == call.op = "relMatches" /\ call.kind = "bool"

\* the percept the node supplies for a feature at a time
PerceptOf(node, key, time, other) ==
  get(H0, node, key, Opts(time, other, FALSE, FALSE)).res[1]

IsActive(p) == p.act >= activation_threshold

\* o satisfies the attribute matchers of sel
Satisfies(o, sel) ==
  \A i \in DOMAIN sel.obj_attrs :
    LET a == sel.obj_attrs[i]
        p == PerceptOf(o, a.key, a.time, NoOther)
    IN p.label = a.label /\ IsActive(p) = a.active

\* the others the last relation match ran over
Candidates ==
  IF call.others = NoOthers THEN SelectSeq(objs, LAMBDA on : on # call.n)
  ELSE call.others

\* C7: a RelMatcher with active=false matches iff no other among the
\* candidates satisfies the attribute matchers of other_sel and is in the
\* active relation with the node
C7_NegationUniversal ==
  (IsRelMatch /\ ~call.m.active) =>
    call.res[1] =
      ~\E i \in DOMAIN Candidates :
          /\ Satisfies(Candidates[i], call.m.other_sel)
          /\ IsActive(PerceptOf(call.n, call.m.key, call.m.time, Candidates[i]))

\* the partners of the node: the candidates other than the node that satisfy
\* other_sel and to which the relation is active with the matcher's label
Partners ==
  {i \in DOMAIN Candidates :
     /\ Candidates[i] # call.n
     /\ Satisfies(Candidates[i], call.m.other_sel)
     /\ LET p == PerceptOf(call.n, call.m.key, call.m.time, Candidates[i])
        IN p.label = call.m.label /\ IsActive(p)}

\* C8: a RelMatcher with active=true matches iff it has exactly one partner
\* when other_sel.unique is set, and at least one partner otherwise
C8_PartnerCount ==
  (IsRelMatch /\ call.m.active) =>
    call.res[1] = (IF call.m.other_sel.unique THEN Cardinality(Partners) = 1
                   ELSE Cardinality(Partners) >= 1)

\* two circles are close to the node and the matcher asks for a unique one
C8_Witness ==
  /\ IsRelMatch
  /\ call.m.active
  /\ call.m.other_sel.unique
  /\ Len(call.m.other_sel.obj_attrs) > 0
  /\ Cardinality(Partners) = 2
  /\ call.res[1] = FALSE

\* C9: an AttrMatcher with label L matches iff the percept of the node for
\* its key at its time has label L and an activity that is at least the
\* activation threshold when active=true, and below it when active=false
C9_Threshold ==
  IsAttrMatch =>
    LET p == PerceptOf(call.n, call.m.key, call.m.time, NoOther)
    IN call.res[1] =
         (/\ p.label = call.m.label
          /\ IF call.m.active THEN p.act >= activation_threshold
             ELSE p.act < activation_threshold)

\* an activity exactly at the threshold counts as active
C9_Witness ==
  /\ IsAttrMatch
  /\ call.m.active
  /\ PerceptOf(call.n, call.m.key, call.m.time, NoOther).act = activation_threshold
  /\ call.res[1] = TRUE

----------------------------------------------------------------------------
\* Solutions

MaxPairs == 3

\* main_side was not passed
NoSide == ""

\* Solution.prototype.setMainSide
setMainSide(s, main_side) ==
  LET side == IF main_side = NoSide THEN "both" ELSE main_side
  IN [s EXCEPT !.main_side = side,
               !.other_side = CASE side = "left" -> "right"
                                [] side = "right" -> "left"
                                [] OTHER -> NoSide]

\* new Solution(selector, main_side, mode)
Solution(main_side, mode) ==
  setMainSide([mode |-> IF mode = "" THEN "exists" ELSE mode,
               main_side |-> NoSide, other_side |-> NoSide,
               matchedAgainst |-> <<>>,
               lchecks |-> 0, rchecks |-> 0, lmatches |-> 0, rmatches |-> 0,
               scene_pair_count |-> 8,
               selects_single_objs |-> TRUE], main_side)

\* a scene as checkScenePair sees it: its side and the number of objects the
\* selector of the solution selects in it
Scene(side, selected) == [side |-> side, selected |-> selected]

RECURSIVE CheckScenes_latest(_, _, _)
\* the forEach with selects_single_objs following the scene checked last
CheckScenes_latest(s, pair, i) ==
  IF i > Len(pair) THEN s
  ELSE
    LET scene == pair[i]
        matches == scene.selected # 0
        s1 == [s EXCEPT !.selects_single_objs = ~(scene.selected > 1)]
        s2 == IF scene.side = "left"
              THEN [s1 EXCEPT !.lchecks = @ + 1,
                              !.lmatches = IF matches THEN @ + 1 ELSE @]
              ELSE s1
        s3 == IF scene.side = "right"
              THEN [s2 EXCEPT !.rchecks = @ + 1,
                              !.rmatches = IF matches THEN @ + 1 ELSE @]
              ELSE s2
    IN CheckScenes_latest(s3, pair, i + 1)

RECURSIVE CheckScenes(_, _, _)
\* the pair.forEach of checkScenePair
CheckScenes(s, pair, i) ==
  IF i > Len(pair) THEN s
  ELSE
    LET scene == pair[i]
        matches == scene.selected # 0
        s1 == IF scene.selected > 1 THEN [s EXCEPT !.selects_single_objs = FALSE] ELSE s
        s2 == IF scene.side = "left"
              THEN [s1 EXCEPT !.lchecks = @ + 1,
                              !.lmatches = IF matches THEN @ + 1 ELSE @]
              ELSE s1
        s3 == IF scene.side = "right"
              THEN [s2 EXCEPT !.rchecks = @ + 1,
                              !.rmatches = IF matches THEN @ + 1 ELSE @]
              ELSE s2
    IN CheckScenes(s3, pair, i + 1)

\* Solution.prototype.checkScenePair
checkScenePair(s, pair, pair_id) ==
  LET s1 == CheckScenes(s, pair, 1)
      s2 == [s1 EXCEPT !.matchedAgainst = Append(@, pair_id)]
  IN IF s2.lmatches = 0 /\ s2.rmatches = s2.rchecks THEN setMainSide(s2, "right")
     ELSE IF s2.rmatches = 0 /\ s2.lmatches = s2.lchecks THEN setMainSide(s2, "left")
     ELSE IF s2.lmatches > 0 /\ s2.rmatches = s2.rchecks THEN setMainSide(s2, "both")
     ELSE IF s2.rmatches > 0 /\ s2.lmatches = s2.lchecks THEN setMainSide(s2, "both")
     ELSE setMainSide(s2, "fail")

SolCall(op, arg) ==
  [op |-> op, arg |-> arg, pre |-> times, gpre |-> gtimes, pre_curr |-> curr_state,
   pre_objs |-> objs]

\* solution.checkScenePair([sceneL, sceneR], pair_id), the selector selecting
\* nl objects in the left and nr in the right scene
CheckScenePair(nl, nr, pair_id) ==
  /\ Len(sol.matchedAgainst) < MaxPairs
  /\ \E pair \in {<<Scene("left", nl), Scene("right", nr)>>} :
       /\ sol' = checkScenePair(sol, pair, pair_id)
       /\ call' = SolCall("checkScenePair", <<pair, pair_id>>)
  /\ UNCHANGED <<world, objs, hasNode, times, gtimes, collisions, curr_state,
                 nextId, log, ops, heap, fits_solution>>

\* solution.setMainSide(main_side)
SetMainSide(main_side) ==
  /\ sol.main_side # main_side
  /\ sol' = setMainSide(sol, main_side)
  /\ call' = SolCall("setMainSide", main_side)
  /\ UNCHANGED <<world, objs, hasNode, times, gtimes, collisions, curr_state,
                 nextId, log, ops, heap, fits_solution>>

Sides == {"left", "right"}

SolInit ==
  /\ world = Tower
  /\ InitScene
  /\ sol \in {Solution(main_side, "") : main_side \in Sides \cup {NoSide}}

SolNext ==
  \/ \E nl \in 0..2, nr \in 0..2, pair_id \in 1..2 :
       CheckScenePair(nl, nr, pair_id)
  \/ \E main_side \in Sides \cup {NoSide} : SetMainSide(main_side)

SolSpec == SolInit /\ [][SolNext]_vars

----------------------------------------------------------------------------
\* Claims about solutions

\* C10: after checkScenePair, main_side is 'right' if no left scene matched
\* and every right scene did; else 'left' if no right scene matched and every
\* left scene did; else 'both' if every scene checked so far matched on both
\* sides; otherwise 'fail'
C10_MainSide ==
  call.op = "checkScenePair" =>
    sol.main_side =
      (IF sol.lmatches = 0 /\ sol.rmatches = sol.rchecks THEN "right"
       ELSE IF sol.rmatches = 0 /\ sol.lmatches = sol.lchecks THEN "left"
       ELSE IF sol.lmatches = sol.lchecks /\ sol.rmatches = sol.rchecks THEN "both"
       ELSE "fail")

----------------------------------------------------------------------------
\* A solution checked against the scene pairs of a problem, one after the other

MaxChecks == 9

\* isSolution with the right-hand case left out
isSolution_left(s) ==
  s.rmatches = 0 /\ s.lmatches = s.scene_pair_count

\* Solution.prototype.isSolution
isSolution(s) ==
  \/ s.rmatches = 0 /\ s.lmatches = s.scene_pair_count
  \/ s.lmatches = 0 /\ s.rmatches = s.scene_pair_count

\* solution.checkScenePair([sceneL, sceneR], pair_id) for the pairs of the
\* problem taken in turn, starting over after the last one
CheckNextPair(nl, nr) ==
  /\ Len(sol.matchedAgainst) < MaxChecks
  /\ \E pair \in {<<Scene("left", nl), Scene("right", nr)>>},
        pair_id \in {(Len(sol.matchedAgainst) % sol.scene_pair_count) + 1} :
       /\ sol' = checkScenePair(sol, pair, pair_id)
       /\ call' = SolCall("checkScenePair", <<pair, pair_id>>)
  /\ UNCHANGED <<world, objs, hasNode, times, gtimes, collisions, curr_state,
                 nextId, log, ops, heap, fits_solution>>

SolRunNext == \E nl \in 0..2, nr \in 0..2 : CheckNextPair(nl, nr)

SolRunSpec == SolInit /\ [][SolRunNext]_vars

\* C11: after checkScenePair calls on pairs of a left and a right scene, if
\* lmatches = 0 and rmatches = rchecks = scene_pair_count then isSolution()
\* is true and main_side is 'right'; and the same with the sides exchanged
C11_SideClassification ==
  call.op = "checkScenePair" =>
    /\ (sol.lmatches = 0 /\ sol.rmatches = sol.rchecks
          /\ sol.rchecks = sol.scene_pair_count)
         => isSolution(sol) /\ sol.main_side = "right"
    /\ (sol.rmatches = 0 /\ sol.lmatches = sol.lchecks
          /\ sol.lchecks = sol.scene_pair_count)
         => isSolution(sol) /\ sol.main_side = "left"

\* every right scene of the problem matched and no left one
C11_Witness ==
  /\ call.op = "checkScenePair"
  /\ sol.lmatches = 0
  /\ sol.rmatches = sol.rchecks
  /\ sol.rchecks = sol.scene_pair_count
  /\ isSolution(sol)
  /\ sol.main_side = "right"

\* C12: isSolution() is true iff one side matched every scene checked on it
\* (matches = checks = scene_pair_count) and the other side matched none,
\* also after more than scene_pair_count calls; so isSolution() implies that
\* main_side is 'left' or 'right'
C12_SolutionIff ==
  /\ isSolution(sol) <=>
       \/ sol.rmatches = 0 /\ sol.lmatches = sol.lchecks
            /\ sol.lchecks = sol.scene_pair_count
       \/ sol.lmatches = 0 /\ sol.rmatches = sol.rchecks
            /\ sol.rchecks = sol.scene_pair_count
  /\ (call.op = "checkScenePair" /\ isSolution(sol)) => sol.main_side \in Sides

----------------------------------------------------------------------------
\* Claims about nested relation matchers

\* the last call was matches on a RelMatcher whose other_sel has a RelMatcher
NestedRelMatch ==
  call.op = "relMatches" /\ Len(call.m.other_sel.rels) > 0

\* C19: a RelMatcher whose other_sel contains a RelMatcher is rejected at the
\* latest by matches: every call of matches on it fails before any percept is
\* constructed, before any oracle call and before any cache access
C19_NestedRejected ==
  NestedRelMatch =>
    /\ call.kind = "throw"
    /\ log = <<>>
    /\ times = call.pre
    /\ gtimes = call.gpre
    /\ curr_state = call.pre_curr

\* matches was called on such a matcher in a scene whose objects are
\* registered, with and without the list of others
C19_Witness ==
  /\ NestedRelMatch
  /\ call.kind = "throw"
  /\ call.others # NoOthers
  /\ ~call.m.active
  /\ objs # <<>>

----------------------------------------------------------------------------
\* Relation gets without a partner

\* the calls of an application that also asks for relations without passing
\* `other`
PartnerNext ==
  \/ RegisterObjects
  \/ \E name \in {"start", "end"} : GotoState(name)
  \/ \E key \in {"touch", "hits", "supports"}, t \in TimeArgs :
       Get(1, key, t, 2, FALSE, FALSE)
  \/ \E key \in {"touch", "hits", "supports"}, t \in TimeArgs, co \in BOOLEAN :
       Get(1, key, t, NoOther, co, FALSE)

PartnerSpec == Init /\ [][PartnerNext]_vars

\* the last call was a relation get without `other` and without get_all
LoneRelGet ==
  /\ IsGet
  /\ IsRelKey(call.key)
  /\ call.opts.other = NoOther
  /\ ~call.opts.get_all

\* C20: get for a relation key without `other` (and without get_all) fails
\* with an error in every case (the key cached, a cache miss, cache_only) and
\* leaves the cache of the node and the state of the oracle unchanged
C20_MissingPartner ==
  LoneRelGet =>
    /\ call.kind = "throw"
    /\ times = call.pre
    /\ curr_state = call.pre_curr

----------------------------------------------------------------------------
\* Selectors as objects.  heap.sels, heap.ams and heap.rms hold the Selector,
\* AttrMatcher and RelMatcher objects in the order of their construction; a
\* selector lists its matchers, and a RelMatcher its other_sel, by position
\* in these lists, so that one object can be shared.  heap.origin[s] is the
\* selector that s was cloned from (0 if it was not cloned), and heap.failed
\* holds the selectors whose getComplexity has thrown.

MaxSels == 4
MaxAttrMatchers == 3
MaxRelMatchers == 2

\* cached_complexity = null
Null == -1

\* new Selector(unique)
SelectorObject(unique) ==
  [obj_attrs |-> <<>>, grp_attrs |-> <<>>, rels |-> <<>>, unique |-> unique,
   cached_complexity |-> Null]

\* the selector object is appended to the heap
AllocSelector(hp, unique, from) ==
  [hp EXCEPT !.sels = Append(@, SelectorObject(unique)),
             !.origin = Append(@, from)]

SetMin(S) == CHOOSE x \in S : \A y \in S : x <= y

\* Selector.prototype.blank
blank(sel) ==
  Len(sel.obj_attrs) = 0 /\ Len(sel.grp_attrs) = 0 /\ Len(sel.rels) = 0

\* getType that does not look at the relation matchers
getType_norels(sel) ==
  IF Len(sel.grp_attrs) = 0 THEN "object"
  ELSE IF Len(sel.obj_attrs) = 0 THEN "group"
  ELSE "mixed"

\* Selector.prototype.getType
getType(sel) ==
  IF blank(sel) THEN "object"
  ELSE IF Len(sel.grp_attrs) = 0 THEN "object"
  ELSE IF Len(sel.obj_attrs) = 0 /\ Len(sel.rels) = 0 THEN "group"
  ELSE "mixed"

\* Selector.AttrMatcher.prototype.equals
AttrMatcher_equals(this, other) ==
  /\ this.key = other.key
  /\ this.label = other.label
  /\ this.active = other.active
  /\ this.time = other.time

RECURSIVE Selector_equals(_, _, _)
\* Selector.prototype.equals, with Selector.RelMatcher.prototype.equals for
\* the relation matchers
Selector_equals(hp, this, other) ==
  IF this = other THEN TRUE
  ELSE
    LET self == hp.sels[this]
        them == hp.sels[other]
        differs(field) ==
          ~ \A i \in DOMAIN self[field] : \E j \in DOMAIN them[field] :
                AttrMatcher_equals(hp.ams[self[field][i]], hp.ams[them[field][j]])
        RelMatcher_equals(ours, theirs) ==
          /\ ours.key = theirs.key
          /\ ours.label = theirs.label
          /\ ours.active = theirs.active
          /\ ours.time = theirs.time
          /\ Selector_equals(hp, ours.other_sel, theirs.other_sel)
    IN /\ Len(self.obj_attrs) = Len(them.obj_attrs)
       /\ Len(self.grp_attrs) = Len(them.grp_attrs)
       /\ Len(self.rels) = Len(them.rels)
       /\ ~differs("grp_attrs")
       /\ ~differs("obj_attrs")
       /\ \A i \in DOMAIN self.rels : \E j \in DOMAIN them.rels :
            RelMatcher_equals(hp.rms[self.rels[i]], hp.rms[them.rels[j]])

\* Selector.prototype.add_attr for the matcher object m
add_attr(hp, sel, m) ==
  LET field == IF hp.ams[m].type = "group" THEN "grp_attrs" ELSE "obj_attrs"
      attrs == hp.sels[sel][field]
      same == {i \in DOMAIN attrs :
                 /\ hp.ams[attrs[i]].key = hp.ams[m].key
                 /\ hp.ams[attrs[i]].time = hp.ams[m].time}
  IN [hp EXCEPT !.sels[sel][field] =
        IF same # {} THEN [attrs EXCEPT ![SetMin(same)] = m] ELSE Append(attrs, m)]

\* Selector.prototype.add_rel for the matcher object r
add_rel(hp, sel, r) ==
  LET rels == hp.sels[sel].rels
      same == {i \in DOMAIN rels :
                 /\ hp.rms[rels[i]].key = hp.rms[r].key
                 /\ hp.rms[rels[i]].time = hp.rms[r].time
                 /\ Selector_equals(hp, hp.rms[rels[i]].other_sel, hp.rms[r].other_sel)}
  IN [hp EXCEPT !.sels[sel].rels =
        IF same # {} THEN [rels EXCEPT ![SetMin(same)] = r] ELSE Append(rels, r)]

RECURSIVE AddAttrs(_, _, _, _)
\* attrs.forEach(add_attr)
AddAttrs(hp, sel, attrs, i) ==
  IF i > Len(attrs) THEN hp
  ELSE Then(add_attr(hp, sel, attrs[i]), LAMBDA h1 : AddAttrs(h1, sel, attrs, i + 1))

RECURSIVE AddRels(_, _, _, _)
\* rels.forEach(add_rel)
AddRels(hp, sel, rels, i) ==
  IF i > Len(rels) THEN hp
  ELSE Then(add_rel(hp, sel, rels[i]), LAMBDA h1 : AddRels(h1, sel, rels, i + 1))

\* Selector.prototype.mergedWith: the new selector is the last of hp.sels
mergedWith(hp, this, other_sel) ==
  LET sel == Len(hp.sels) + 1
      a == hp.sels[this]
      b == hp.sels[other_sel]
  IN Then(AddAttrs(AllocSelector(hp, FALSE, 0), sel,
                   a.obj_attrs \o b.obj_attrs \o a.grp_attrs \o b.grp_attrs, 1),
          LAMBDA h1 : AddRels(h1, sel, a.rels \o b.rels, 1))

\* Selector.prototype.clone: the new selector is the last of hp.sels
clone(hp, this) ==
  LET sel == Len(hp.sels) + 1
      a == hp.sels[this]
  IN Then(AddAttrs(AllocSelector(hp, a.unique, this), sel,
                   a.obj_attrs \o a.grp_attrs, 1),
          LAMBDA h1 : AddRels(h1, sel, a.rels, 1))

\* Selector.AttrMatcher.prototype.getComplexity, and the part of
\* Selector.RelMatcher.prototype.getComplexity before other_sel
MatcherComplexity(m) ==
  1 + (IF m.time # "start" THEN 1 ELSE 0) + (IF ~m.active THEN 2 ELSE 0)

RECURSIVE SumComplexity(_, _, _)
SumComplexity(hp, attrs, i) ==
  IF i > Len(attrs) THEN 0
  ELSE MatcherComplexity(hp.ams[attrs[i]]) + SumComplexity(hp, attrs, i + 1)

\* the two loops of getComplexity over the attribute matchers
AttrsComplexity(hp, sel) ==
  SumComplexity(hp, hp.sels[sel].obj_attrs, 1)
    + SumComplexity(hp, hp.sels[sel].grp_attrs, 1)

\* the end of getComplexity with the cached value always replaced
CheckCached_refresh(hp, sel, c) ==
  [hp |-> [hp EXCEPT !.sels[sel].cached_complexity = c], kind |-> "value", c |-> c]

\* the end of getComplexity: the sum is kept if none is cached and compared
\* with the cached one
CheckCached(hp, sel, c) ==
  LET h1 == IF hp.sels[sel].cached_complexity = Null
            THEN [hp EXCEPT !.sels[sel].cached_complexity = c] ELSE hp
  IN IF h1.sels[sel].cached_complexity # c
     THEN [hp |-> h1, kind |-> "throw", c |-> 0]
     ELSE [hp |-> h1, kind |-> "value", c |-> c]

RECURSIVE RelsComplexity(_, _, _, _)
\* Selector.prototype.getComplexity from its third loop on: c is the sum so
\* far and i the next relation matcher, whose getComplexity calls
\* getComplexity of its other_sel
RelsComplexity(hp, sel, i, c) ==
  IF i > Len(hp.sels[sel].rels) THEN CheckCached(hp, sel, c)
  ELSE
    LET rel == hp.rms[hp.sels[sel].rels[i]]
    IN Then(RelsComplexity(hp, rel.other_sel, 1, AttrsComplexity(hp, rel.other_sel)),
            LAMBDA o : IF o.kind = "throw" THEN o
                       ELSE RelsComplexity(o.hp, sel, i + 1,
                                           c + MatcherComplexity(rel) + o.c))

\* Selector.prototype.getComplexity
getComplexity(hp, sel) ==
  RelsComplexity(hp, sel, 1, AttrsComplexity(hp, sel))

RECURSIVE NestWithin(_, _, _)
NestWithin(hp, S, n) ==
  IF n = 0 THEN S
  ELSE NestWithin(hp, S \cup UNION {{hp.rms[hp.sels[s].rels[i]].other_sel :
                                        i \in 1..Len(hp.sels[s].rels)} : s \in S},
                  n - 1)

\* the selector itself and the selectors it reaches through the other_sel of
\* relation matchers (what forEachFeature walks through)
Nest(hp, sel) ==
  UNION {NestWithin(hp, {s}, Len(hp.sels)) : s \in {sel} \cap DOMAIN hp.sels}

SelCall(op, sel, kind, res) ==
  [op |-> op, sel |-> sel, kind |-> kind, res |-> res]

SelFrame ==
  UNCHANGED <<world, objs, hasNode, times, gtimes, collisions, curr_state,
              nextId, log, ops, sol, fits_solution>>

\* new Selector(unique)
NewSelector(unique) ==
  /\ Len(heap.sels) < MaxSels
  /\ heap' = AllocSelector(heap, unique, 0)
  /\ call' = SelCall("Selector", Len(heap.sels) + 1, "", 0)
  /\ SelFrame

\* sel.add_attr(new Selector.AttrMatcher(key, label, active, time))
AddAttr(sel, key, label, active, time) ==
  /\ sel \in DOMAIN heap.sels
  /\ Len(heap.ams) < MaxAttrMatchers
  /\ heap' = add_attr([heap EXCEPT !.ams = Append(@, AttrMatcher(key, label, active, time))],
                      sel, Len(heap.ams) + 1)
  /\ call' = SelCall("add_attr", sel, "", 0)
  /\ SelFrame

\* sel.add_rel(new Selector.RelMatcher(other_sel, key, label, active, time)),
\* for an other_sel that does not lead back to sel
AddRel(sel, other_sel, key, label, active, time) ==
  /\ sel \in DOMAIN heap.sels
  /\ other_sel \in DOMAIN heap.sels
  /\ sel \notin Nest(heap, other_sel)
  /\ Len(heap.rms) < MaxRelMatchers
  /\ heap' = add_rel([heap EXCEPT !.rms = Append(@, RelMatcher(other_sel, key, label, active, time))],
                     sel, Len(heap.rms) + 1)
  /\ call' = SelCall("add_rel", sel, "", 0)
  /\ SelFrame

\* sel.obj_attrs[0].active = active
SetActive(sel, active) ==
  /\ sel \in DOMAIN heap.sels
  /\ Len(heap.sels[sel].obj_attrs) > 0
  /\ heap.ams[heap.sels[sel].obj_attrs[1]].active # active
  /\ heap' = [heap EXCEPT !.ams[heap.sels[sel].obj_attrs[1]].active = active]
  /\ call' = SelCall("set active", sel, "", 0)
  /\ SelFrame

\* sel.clone()
Clone(sel) ==
  /\ sel \in DOMAIN heap.sels
  /\ Len(heap.sels) < MaxSels
  /\ heap' = clone(heap, sel)
  /\ call' = SelCall("clone", sel, "", Len(heap.sels) + 1)
  /\ SelFrame

\* sel.mergedWith(other_sel)
MergedWith(sel, other_sel) ==
  /\ sel \in DOMAIN heap.sels
  /\ other_sel \in DOMAIN heap.sels
  /\ Len(heap.sels) < MaxSels
  /\ heap' = mergedWith(heap, sel, other_sel)
  /\ call' = SelCall("mergedWith", sel, "", Len(heap.sels) + 1)
  /\ SelFrame

\* sel.getComplexity()
GetComplexity(sel) ==
  /\ sel \in DOMAIN heap.sels
  /\ \E r \in {getComplexity(heap, sel)} :
       /\ heap' = [r.hp EXCEPT !.failed = IF r.kind = "throw" THEN @ \cup {sel} ELSE @]
       /\ call' = SelCall("getComplexity", sel, r.kind, r.c)
  /\ SelFrame

SelInit ==
  /\ world = Tower
  /\ InitScene
  /\ sol = NoSolution

\* the selectors, attribute matchers and relation matchers of the runs that
\* clone, edit and measure selectors, and the selectors built before a merge
MaxEdited == 3
MaxMeasured == 2
MaxGiven == 2
MaxNested == 1
MaxBuilt == 3

\* what an application does with selectors: it constructs them, gives them a
\* shape or a count matcher or a relation to the objects of another selector,
\* clones them and edits a matcher
SelNext ==
  \/ Len(heap.sels) < MaxEdited /\ \E unique \in BOOLEAN : NewSelector(unique)
  \/ Len(heap.ams) < MaxGiven /\ \E sel \in 1..MaxEdited :
       AddAttr(sel, "shape", "circle", TRUE, NoTime)
  \/ Len(heap.ams) < MaxGiven /\ \E sel \in 1..MaxEdited :
       AddAttr(sel, "count", "2", TRUE, NoTime)
  \/ Len(heap.rms) < MaxNested /\ \E sel \in 1..MaxEdited, other_sel \in 1..MaxEdited :
       AddRel(sel, other_sel, "close", "close", TRUE, NoTime)
  \/ \E sel \in 1..MaxEdited, active \in BOOLEAN : SetActive(sel, active)
  \/ Len(heap.sels) < MaxEdited /\ \E sel \in 1..MaxEdited : Clone(sel)

SelSpec == SelInit /\ [][SelNext]_vars

\* selectors are built and asked for their complexity
ComplexityNext ==
  \/ Len(heap.sels) < MaxMeasured /\ NewSelector(FALSE)
  \/ \E sel \in 1..MaxMeasured, active \in BOOLEAN :
       AddAttr(sel, "shape", "circle", active, NoTime)
  \/ \E sel \in 1..MaxMeasured : AddAttr(sel, "count", "2", TRUE, NoTime)
  \/ Len(heap.rms) < MaxNested /\ \E sel \in 1..MaxMeasured, other_sel \in 1..MaxMeasured :
       AddRel(sel, other_sel, "close", "close", TRUE, NoTime)
  \/ \E sel \in 1..MaxMeasured : GetComplexity(sel)

ComplexitySpec == SelInit /\ [][ComplexityNext]_vars

\* selectors are built with add_attr and add_rel and merged with themselves
MergeNext ==
  \/ Len(heap.sels) < MaxBuilt /\ \E unique \in BOOLEAN : NewSelector(unique)
  \/ Len(heap.sels) <= MaxBuilt /\ Len(heap.ams) < MaxGiven
       /\ \E sel \in 1..MaxBuilt :
       AddAttr(sel, "shape", "circle", TRUE, NoTime)
  \/ Len(heap.sels) <= MaxBuilt /\ Len(heap.ams) < MaxGiven
       /\ \E sel \in 1..MaxBuilt :
       AddAttr(sel, "count", "2", TRUE, NoTime)
  \/ Len(heap.sels) <= MaxBuilt /\ \E sel \in 1..MaxBuilt, other_sel \in 1..MaxBuilt :
       AddRel(sel, other_sel, "close", "close", TRUE, NoTime)
  \/ \E sel \in 1..MaxSels : MergedWith(sel, sel)

MergeSpec == SelInit /\ [][MergeNext]_vars

----------------------------------------------------------------------------
\* C16

\* the type the four cases of the rule give a selector with no group
\* attribute matchers, with group attribute matchers only, and any other
TypeByMatchers(sel) ==
  IF Len(sel.grp_attrs) = 0 THEN "object"
  ELSE IF Len(sel.obj_attrs) = 0 /\ Len(sel.rels) = 0 THEN "group"
  ELSE "mixed"

NoMatchers(sel) ==
  Len(sel.obj_attrs) + Len(sel.grp_attrs) + Len(sel.rels) = 0

\* C16 as stated: the type of a selector is 'blank' iff it has no matchers at
\* all; otherwise it is 'object' if it has no group attribute matchers,
\* 'group' if it has no object attribute matchers and no relation matchers,
\* and 'mixed' in every other case
C16_TypeBlank ==
  \A s \in DOMAIN heap.sels :
    /\ (getType(heap.sels[s]) = "blank") <=> NoMatchers(heap.sels[s])
    /\ ~NoMatchers(heap.sels[s]) =>
         getType(heap.sels[s]) = TypeByMatchers(heap.sels[s])

\* C16 amended: blank() is true iff the selector has no matchers at all, and
\* getType() is never 'blank': it is 'object' if the selector has no group
\* attribute matchers (a selector with no matchers included), 'group' if it
\* has group attribute matchers but no object attribute matchers and no
\* relation matchers, and 'mixed' in every other case
C16_Type ==
  \A s \in DOMAIN heap.sels :
    /\ blank(heap.sels[s]) <=> NoMatchers(heap.sels[s])
    /\ getType(heap.sels[s]) = TypeByMatchers(heap.sels[s])

\* a selector without matchers, one with a count matcher only and one with a
\* count matcher and a relation matcher exist, and getType has told them apart
C16_Witness ==
  \E a \in DOMAIN heap.sels, b \in DOMAIN heap.sels, c \in DOMAIN heap.sels :
    /\ NoMatchers(heap.sels[a]) /\ getType(heap.sels[a]) = "object"
    /\ Len(heap.sels[b].grp_attrs) = 1 /\ Len(heap.sels[b].rels) = 0
    /\ Len(heap.sels[b].obj_attrs) = 0 /\ getType(heap.sels[b]) = "group"
    /\ Len(heap.sels[c].grp_attrs) = 1 /\ Len(heap.sels[c].rels) = 1
    /\ Len(heap.sels[c].obj_attrs) = 0 /\ getType(heap.sels[c]) = "mixed"

----------------------------------------------------------------------------
\* C18

RECURSIVE Recomputed(_, _)
\* the complexity of a selector computed from its matchers and from those of
\* the selectors it nests, whatever is cached
Recomputed(hp, sel) ==
  LET RelTotal[i \in 0..Len(hp.sels[sel].rels)] ==
        IF i = 0 THEN 0
        ELSE RelTotal[i - 1] + MatcherComplexity(hp.rms[hp.sels[sel].rels[i]])
               + Recomputed(hp, hp.rms[hp.sels[sel].rels[i]].other_sel)
  IN AttrsComplexity(hp, sel) + RelTotal[Len(hp.sels[sel].rels)]

\* the selector has a cached complexity that differs from the recomputed one
Stale(hp, sel) ==
  /\ hp.sels[sel].cached_complexity # Null
  /\ hp.sels[sel].cached_complexity # Recomputed(hp, sel)

\* C18 as stated, its last part: once a getComplexity call on a selector has
\* failed with the stale-cache error on an add_attr/add_rel that changed the
\* total, every subsequent getComplexity call on that selector fails
C18_StaleForever ==
  (call.op = "getComplexity" /\ call.sel \in heap.failed) => call.kind = "throw"

\* C18 amended: a getComplexity call fails with the stale-cache error exactly
\* when the selector, or a selector it nests through its relation matchers,
\* has a cached complexity that differs from its recomputed complexity;
\* a call that succeeds returns the recomputed complexity, and no step changes
\* a cached value once it is set (so the calls fail for as long as the total
\* differs from the value of the first call, and succeed again when a later
\* add_attr brings the total back to it)
C18_StaleCache ==
  [][/\ \A s \in DOMAIN heap.sels :
          heap.sels[s].cached_complexity # Null =>
            heap'.sels[s].cached_complexity = heap.sels[s].cached_complexity
     /\ call'.op = "getComplexity" =>
          /\ (call'.kind = "throw") <=> (\E s \in Nest(heap, call'.sel) : Stale(heap, s))
          /\ call'.kind # "throw" => call'.res = Recomputed(heap, call'.sel)]_vars

\* a getComplexity call has failed on a selector because a selector it nests
\* got another matcher after its complexity was cached
C18_Witness ==
  /\ call.op = "getComplexity"
  /\ call.kind = "throw"
  /\ \E s \in Nest(heap, call.sel) \ {call.sel} :
       /\ Stale(heap, s)
       /\ Len(heap.sels[s].obj_attrs) + Len(heap.sels[s].grp_attrs) > 0

----------------------------------------------------------------------------
\* C14: for every selector s built through add_attr and add_rel,
\* s.mergedWith(s).equals(s) is true, and the merged selector has as many
\* matchers as s in each of obj_attrs, grp_attrs and rels
C14_MergedWithSelf ==
  call.op = "mergedWith" =>
    /\ Selector_equals(heap, call.res, call.sel)
    /\ Len(heap.sels[call.res].obj_attrs) = Len(heap.sels[call.sel].obj_attrs)
    /\ Len(heap.sels[call.res].grp_attrs) = Len(heap.sels[call.sel].grp_attrs)
    /\ Len(heap.sels[call.res].rels) = Len(heap.sels[call.sel].rels)

----------------------------------------------------------------------------
\* C15

RECURSIVE Structure(_, _)
\* what a selector consists of: its matcher lists, the fields of its matchers
\* and, for the relation matchers, the selectors they nest
Structure(hp, sel) ==
  [obj_attrs |-> [i \in DOMAIN hp.sels[sel].obj_attrs |-> hp.ams[hp.sels[sel].obj_attrs[i]]],
   grp_attrs |-> [i \in DOMAIN hp.sels[sel].grp_attrs |-> hp.ams[hp.sels[sel].grp_attrs[i]]],
   rels |-> [i \in DOMAIN hp.sels[sel].rels |->
               [matcher |-> hp.rms[hp.sels[sel].rels[i]],
                nested |-> Structure(hp, hp.rms[hp.sels[sel].rels[i]].other_sel)]]]

\* C15: s.clone().equals(s) holds for every selector s, and the clone is
\* structurally independent: a mutation of the clone (add_attr, add_rel, a
\* changed field of one of its matchers, or a mutation of a selector nested
\* in it) leaves the matcher lists, the matchers' fields and the nested
\* selectors of the original unchanged.  The clones that have been nested in
\* their original, or their original in them, are left out.
C15_CloneIndependent ==
  [][/\ call'.op = "clone" => Selector_equals(heap', call'.res, call'.sel)
     /\ \A c \in DOMAIN heap.sels :
          (/\ heap.origin[c] # 0
           /\ heap.origin[c] \notin Nest(heap, c)
           /\ c \notin Nest(heap, heap.origin[c])
           /\ call'.op \in {"add_attr", "add_rel", "set active"}
           /\ call'.sel \in Nest(heap, c))
          => Structure(heap', heap.origin[c]) = Structure(heap, heap.origin[c])]_vars

----------------------------------------------------------------------------
\* Selecting from groups.  A group node is a record of its objs (shapes), its
\* times cache and its selectors (positions in heap.sels); id tells the group
\* node objects of one call apart.

MaxSelects == 2

\* new GroupNode(scene_node, objs, selector)
GroupNode(id, gobjs, selector) ==
  [id |-> id, objs |-> gobjs, times |-> EmptyTimes, selectors |-> <<selector>>]

\* new GroupNode(scene_node, objs): its selector is a new Selector()
NewGroup(hp, id, gobjs) ==
  [hp |-> AllocSelector(hp, FALSE, 0), g |-> GroupNode(id, gobjs, Len(hp.sels) + 1)]

\* GroupNode.sceneGroup(scene_node)
sceneGroup(hp, h) == NewGroup(hp, 0, h.gobjs)

\* GroupNode.prototype.clone: the times are those of the original
GroupNode_clone(id, this) ==
  [id |-> id, objs |-> this.objs, times |-> this.times, selectors |-> this.selectors]

RECURSIVE Matchers(_, _)
\* the matcher objects of a selector, and of the selectors nested in it, as
\* the matches functions read them
Matchers(hp, sel) ==
  [obj_attrs |-> [i \in DOMAIN hp.sels[sel].obj_attrs |-> hp.ams[hp.sels[sel].obj_attrs[i]]],
   grp_attrs |-> [i \in DOMAIN hp.sels[sel].grp_attrs |-> hp.ams[hp.sels[sel].grp_attrs[i]]],
   rels |-> [i \in DOMAIN hp.sels[sel].rels |->
               [hp.rms[hp.sels[sel].rels[i]] EXCEPT !.other_sel = Matchers(hp, @)]],
   unique |-> hp.sels[sel].unique]

RECURSIVE EveryRel(_, _, _, _)
\* this.rels.every(rel => rel.matches(object, others)) with no others passed
EveryRel(h, rels, i, object) ==
  IF i > Len(rels) THEN [h |-> h, kind |-> "bool", ok |-> TRUE]
  ELSE Then(RelMatcher_matches(h, rels[i], object, NoOthers), LAMBDA r :
         IF r.kind = "throw" THEN [h |-> r.h, kind |-> "throw", ok |-> FALSE]
         ELSE IF r.res[1] THEN EveryRel(r.h, rels, i + 1, object)
         ELSE [h |-> r.h, kind |-> "bool", ok |-> FALSE])

\* Selector.prototype.matchesObject(object, null) without a test_fn
Selector_matchesObject(h, sel, object) ==
  Then(EveryAttr(h, sel.obj_attrs, 1, object), LAMBDA r :
    IF r.ok THEN EveryRel(r.h, sel.rels, 1, object)
    ELSE [h |-> r.h, kind |-> "bool", ok |-> FALSE])

\* Selector.AttrMatcher.prototype.matches for a group node: h.gtimes and
\* h.gobjs are those of the group while its getAttr runs
GroupMatcher_matches(h, m, group) ==
  Then(groupGetAttr([h EXCEPT !.gtimes = group.times, !.gobjs = group.objs], m.key,
                    Opts(m.time, NoOther, FALSE, FALSE)), LAMBDA attr :
    [h |-> [attr.h EXCEPT !.gtimes = h.gtimes, !.gobjs = h.gobjs],
     times |-> attr.h.gtimes,
     ok |-> /\ attr.kind = "percept"
            /\ (attr.res[1].act >= activation_threshold) = m.active
            /\ attr.res[1].label = m.label])

RECURSIVE matchesGroup(_, _, _, _)
\* Selector.prototype.matchesGroup: grp_attrs.every from the i-th matcher on
matchesGroup(h, attrs, i, group) ==
  IF i > Len(attrs) THEN [h |-> h, times |-> group.times, ok |-> TRUE]
  ELSE Then(GroupMatcher_matches(h, attrs[i], group), LAMBDA r :
         IF r.ok THEN matchesGroup(r.h, attrs, i + 1, [group EXCEPT !.times = r.times])
         ELSE r)

RECURSIVE FilterNodes(_, _, _, _, _)
\* gn.objs.map(object_node).filter(matchesObject).map(obj)
FilterNodes(h, sel, gobjs, i, acc) ==
  IF i > Len(gobjs) THEN [h |-> h, kind |-> "bool", nodes |-> acc]
  ELSE Then(Selector_matchesObject(h, sel, gobjs[i]), LAMBDA r :
         IF r.kind = "throw" THEN [h |-> r.h, kind |-> "throw", nodes |-> acc]
         ELSE FilterNodes(r.h, sel, gobjs, i + 1,
                          IF r.ok THEN Append(acc, gobjs[i]) ELSE acc))

\* the group-level part of select that keeps the group when a group
\* attribute matcher fails
SelectGroup_keep(hp, h, this, group_node, gn, shared) ==
  Then(matchesGroup(h, Matchers(hp, this).grp_attrs, 1, gn), LAMBDA r :
    [hp |-> hp, h |-> r.h, kind |-> "group",
     gn |-> [gn EXCEPT !.times = r.times],
     input |-> IF shared THEN [group_node EXCEPT !.times = r.times] ELSE group_node])

\* the group-level part of select: gn is the group left by the object-level
\* part; `shared` tells that its times are those of group_node
SelectGroup(hp, h, this, group_node, gn, shared) ==
  Then(matchesGroup(h, Matchers(hp, this).grp_attrs, 1, gn), LAMBDA r :
    [hp |-> hp, h |-> r.h, kind |-> "group",
     gn |-> IF r.ok THEN [gn EXCEPT !.times = r.times]
            ELSE GroupNode(group_node.id + 3, <<>>, gn.selectors[1]),
     input |-> IF shared THEN [group_node EXCEPT !.times = r.times] ELSE group_node])

\* Selector.prototype.select(group_node, scene_node): the merged selector is
\* the last of the heap it leaves
select(hp, h, this, group_node) ==
  IF blank(hp.sels[this])
  THEN [hp |-> hp, h |-> h, kind |-> "group", gn |-> group_node, input |-> group_node]
  ELSE
    Then(mergedWith(hp, this, group_node.selectors[1]), LAMBDA hp1 :
      IF getType(hp.sels[this]) = "group"
      THEN SelectGroup(hp1, h, this, group_node,
                       [GroupNode_clone(group_node.id + 1, group_node)
                          EXCEPT !.selectors = <<Len(hp1.sels)>>], TRUE)
      ELSE
        Then(FilterNodes(h, Matchers(hp, this), group_node.objs, 1, <<>>), LAMBDA f :
          IF f.kind = "throw"
          THEN [hp |-> hp1, h |-> f.h, kind |-> "throw", gn |-> group_node,
                input |-> group_node]
          ELSE IF getType(hp.sels[this]) = "object"
          THEN [hp |-> hp1, h |-> f.h, kind |-> "group",
                gn |-> GroupNode(group_node.id + 2, f.nodes, Len(hp1.sels)),
                input |-> group_node]
          ELSE SelectGroup(hp1, f.h, this, group_node,
                           GroupNode(group_node.id + 2, f.nodes, Len(hp1.sels)), FALSE)))

\* the test of the mode in check_scene without N > 0 for 'all'
ModeResult_vacuous(mode, N, M) ==
  IF mode = "unique" /\ N = 1 THEN [kind |-> "number", n |-> 1]
  ELSE IF mode = "exists" /\ N > 0 THEN [kind |-> "number", n |-> N]
  ELSE IF mode = "all" /\ M = N THEN [kind |-> "number", n |-> N]
  ELSE [kind |-> "false", n |-> 0]

\* the test of the mode in check_scene: res, a number or false
ModeResult(mode, N, M) ==
  IF mode = "unique" /\ N = 1 THEN [kind |-> "number", n |-> 1]
  ELSE IF mode = "exists" /\ N > 0 THEN [kind |-> "number", n |-> N]
  ELSE IF mode = "all" /\ N > 0 /\ M = N THEN [kind |-> "number", n |-> N]
  ELSE [kind |-> "false", n |-> 0]

\* !!res
Truthy(res) == res.kind = "number" /\ res.n # 0

\* Solution.prototype.check_scene for a solution of selector sel and the mode
check_scene(hp, h, sel, mode) ==
  Then(sceneGroup(hp, h), LAMBDA group0 :
    Then(select(group0.hp, h, sel, group0.g), LAMBDA group1 :
      [hp |-> group1.hp, h |-> group1.h, group0 |-> group1.input, group1 |-> group1.gn,
       kind |-> group1.kind,
       res |-> ModeResult(mode, Len(group1.gn.objs), Len(group0.g.objs))]))

\* sel.add_attr(new Selector.AttrMatcher(key, label, active))
with_attr(hp, sel, key, label, active) ==
  add_attr([hp EXCEPT !.ams = Append(@, AttrMatcher(key, label, active, NoTime))],
           sel, Len(hp.ams) + 1)

\* sel.add_rel(new Selector.RelMatcher(new Selector(), key, label))
with_rel(hp, sel, key, label) ==
  add_rel([AllocSelector(hp, FALSE, 0) EXCEPT
             !.rms = Append(@, RelMatcher(Len(hp.sels) + 1, key, label, TRUE, NoTime))],
          sel, Len(hp.rms) + 1)

\* the selectors that are applied: any object, the circles, the objects that
\* are no circles, a group of three, two circles, and the objects close to
\* another one
SelectorKinds == {"blank", "circles", "no circles", "three", "two circles", "close"}

\* new Selector() and the add_attr and add_rel calls that make it of the kind
Build(hp, kind) ==
  LET sel == Len(hp.sels) + 1
      hp1 == AllocSelector(hp, FALSE, 0)
  IN CASE kind = "blank" -> hp1
       [] kind = "circles" -> with_attr(hp1, sel, "shape", "circle", TRUE)
       [] kind = "no circles" -> with_attr(hp1, sel, "shape", "circle", FALSE)
       [] kind = "three" -> with_attr(hp1, sel, "count", "3", TRUE)
       [] kind = "two circles" ->
            with_attr(with_attr(hp1, sel, "shape", "circle", TRUE), sel, "count", "2", TRUE)
       [] kind = "close" -> with_rel(hp1, sel, "close", "close")

SelectCall(op, sel, kind, res, group0, group1, after) ==
  [op |-> op, sel |-> sel, kind |-> kind, res |-> res, group0 |-> group0,
   group1 |-> group1, after |-> after,
   pre |-> times, gpre |-> gtimes, pre_curr |-> curr_state, pre_objs |-> objs]

\* sel.select(new GroupNode(scene, gobjs), scene) for a selector of the kind;
\* the group holds all objects of the scene when `all` is set
Select(kind, all, gobjs) ==
  /\ ops < MaxSelects
  /\ ~all => Range(gobjs) \subseteq hasNode
  /\ \E hp \in {Build(heap, kind)} :
       \E g \in {NewGroup(hp, 0, IF all THEN objs ELSE gobjs)} :
         \E r \in {select(g.hp, H0, Len(heap.sels) + 1, g.g)} :
           /\ Commit(r.h)
           /\ heap' = r.hp
           /\ call' = SelectCall("select", Len(heap.sels) + 1, r.kind, <<>>, g.g, r.gn, r.input)
  /\ ops' = ops + 1
  /\ UNCHANGED <<world, objs, hasNode, sol, fits_solution>>

\* new Solution(sel, main_side, mode).check_scene(scene) for a selector of the
\* kind
CheckScene(kind, mode) ==
  /\ ops < MaxSelects
  /\ \E hp \in {Build(heap, kind)} :
       \E r \in {check_scene(hp, H0, Len(heap.sels) + 1, mode)} :
         /\ Commit(r.h)
         /\ heap' = r.hp
         /\ fits_solution' = IF Truthy(r.res) THEN "true" ELSE "false"
         /\ call' = SelectCall("check_scene", Len(heap.sels) + 1, mode, r.res,
                               r.group0, r.group1, r.group0)
  /\ ops' = ops + 1
  /\ UNCHANGED <<world, objs, hasNode, sol>>

Modes == {"unique", "exists", "all"}

SelectInit ==
  /\ world \in MatchWorlds
  /\ InitScene
  /\ sol = NoSolution

SelectNext ==
  \/ RegisterObjects
  \/ \E kind \in SelectorKinds : Select(kind, TRUE, <<>>)
  \/ \E kind \in SelectorKinds : Select(kind, FALSE, <<3, 1>>)
  \/ \E kind \in SelectorKinds, mode \in Modes : CheckScene(kind, mode)

SelectSpec == SelectInit /\ [][SelectNext]_vars

----------------------------------------------------------------------------
\* C17 and C13

\* the members of the group, in its order, whose node matches the object
\* attribute and relation matchers, each matched from the state before the call
Survivors(sel, gobjs) ==
  SelectSeq(gobjs, LAMBDA o : Selector_matchesObject(PreH, sel, o).ok)

\* the group attribute matcher holds of a group of these objects
GroupHolds(m, gobjs) ==
  LET p == NewGroupAttr(PreH, m.key, gobjs).p
  IN (p.act >= activation_threshold) = m.active /\ p.label = m.label

\* the selector that was applied in the last call
Applied == Matchers(heap, call.sel)

AppliedBlank ==
  Len(Applied.obj_attrs) + Len(Applied.grp_attrs) + Len(Applied.rels) = 0

Number(n) == [kind |-> "number", n |-> n]
False == [kind |-> "false", n |-> 0]

\* the group of all movable objects of the scene
C13_AllMovable ==
  /\ call.group0.objs = objs
  /\ Range(objs) = IF hasNode = {} THEN {} ELSE world.movable
  /\ call.group1.objs =
       IF \A i \in DOMAIN Applied.grp_attrs :
            GroupHolds(Applied.grp_attrs[i], Survivors(Applied, objs))
       THEN Survivors(Applied, objs)
       ELSE <<>>

\* C13 as stated: check_scene applies the selector to the group of all
\* movable objects and, with N the number of surviving objects and M the
\* number of original objects, returns N when the mode is satisfied (unique:
\* N = 1; exists: N >= 1; all: N = M) and false otherwise, and sets
\* scene.fits_solution to true exactly when the returned value is not false
C13_CheckSceneAll ==
  call.op = "check_scene" =>
    LET N == Len(call.group1.objs)
        M == Len(call.group0.objs)
        satisfied == CASE call.kind = "unique" -> N = 1
                       [] call.kind = "exists" -> N >= 1
                       [] call.kind = "all" -> N = M
    IN /\ C13_AllMovable
       /\ call.res = IF satisfied THEN Number(N) ELSE False
       /\ fits_solution = IF call.res # False THEN "true" ELSE "false"

\* C13 amended: as stated, with the mode 'all' satisfied when N = M and
\* N >= 1 (in a scene without objects check_scene returns false for every mode)
C13_CheckScene ==
  call.op = "check_scene" =>
    LET N == Len(call.group1.objs)
        M == Len(call.group0.objs)
        satisfied == CASE call.kind = "unique" -> N = 1
                       [] call.kind = "exists" -> N >= 1
                       [] call.kind = "all" -> N = M /\ N >= 1
    IN /\ C13_AllMovable
       /\ call.res = IF satisfied THEN Number(N) ELSE False
       /\ fits_solution = IF call.res # False THEN "true" ELSE "false"

\* a solution of mode 'all' was checked in a scene all of whose three objects
\* the selector selects, and in one it selects two of
C13_Witness ==
  /\ call.op = "check_scene"
  /\ call.kind = "all"
  /\ Len(call.group0.objs) = 3
  /\ \/ Len(call.group1.objs) = 3 /\ call.res = Number(3) /\ fits_solution = "true"
     \/ Len(call.group1.objs) = 2 /\ call.res = False /\ fits_solution = "false"

----------------------------------------------------------------------------
\* The feature registries

\* pbpSettings.obj_attrs: the keys of the attributes registered at load, in
\* registration order
obj_attrs ==
  <<"left_pos", "left_most", "right_pos", "right_most", "bottom_pos",
    "top_pos", "top_most", "single", "on_ground", "circle", "square", "rect",
    "triangle", "shape", "stability", "small", "large", "moves",
    "can_move_up">>

\* pbpSettings.group_attrs
group_attrs == <<"close", "count", "far", "touching">>

\* pbpSettings.obj_rels
obj_rels ==
  <<"above", "below", "left_of", "right_of", "beside", "far", "close",
    "on_top_of", "touch", "hits", "gets_hit", "collides", "supports">>

\* IsSupportedAttribute.prototype.key: the attribute is defined in a file of
\* its own and put into no registry
is_supported == "is_supported"

\* the features this model computes are registered ones
ModelledRegistered ==
  /\ Range(ObjAttrKeys) \subseteq Range(obj_attrs)
  /\ Range(ObjRelKeys) \subseteq Range(obj_rels)
  /\ Range(GroupAttrKeys) \subseteq Range(group_attrs)

\* the keys of the feature taxonomy: object attributes, relations, group
\* attributes
TaxonomyObjAttrs ==
  {"shape", "circle", "square", "rect", "triangle", "small", "large",
   "left_pos", "right_pos", "top_pos", "bottom_pos", "left_most",
   "right_most", "top_most", "single", "on_ground", "moves", "is_supported",
   "stability", "can_move_up"}
TaxonomyRels ==
  {"left_of", "right_of", "above", "below", "beside", "on_top_of", "touch",
   "close", "far", "hits", "gets_hit", "collides", "supports"}
TaxonomyGroupAttrs == {"count", "close", "touching", "far"}
Taxonomy == TaxonomyObjAttrs \cup TaxonomyRels \cup TaxonomyGroupAttrs

\* keys that are neither in obj_attrs nor in obj_rels
NotObjectKeys ==
  {k \in Taxonomy \cup {"weight"} : k \notin Range(obj_attrs) \cup Range(obj_rels)}

\* an application that asks an ObjectNode for features by key
RegistryNext ==
  \/ RegisterObjects
  \/ \E name \in {"start", "end"} : GotoState(name)
  \/ \E key \in Range(ObjAttrKeys), t \in TimeArgs :
       Get(1, key, t, NoOther, FALSE, FALSE)
  \/ \E key \in {"touch", "hits", "on_top_of", "supports"}, t \in TimeArgs :
       Get(1, key, t, 2, FALSE, FALSE)
  \/ \E key \in NotObjectKeys, t \in TimeArgs, co \in BOOLEAN :
       Get(1, key, t, NoOther, co, FALSE)

RegistrySpec == Init /\ [][RegistryNext]_vars

\* C21: every feature of the taxonomy is in its registry (the object
\* attributes in obj_attrs, the relations in obj_rels, the group attributes in
\* group_attrs), and a get on an ObjectNode fails with 'unknown feature'
\* exactly for the keys that name no feature of the taxonomy.
C21_UnknownIffUnlisted ==
  call.op = "get" =>
    /\ TaxonomyObjAttrs \subseteq Range(obj_attrs)
    /\ TaxonomyRels \subseteq Range(obj_rels)
    /\ TaxonomyGroupAttrs \subseteq Range(group_attrs)
    /\ call.kind = "throw" <=> call.key \notin Taxonomy

----------------------------------------------------------------------------
\* The order of perceiveAll

PerceiveAllDone == call.op = "perceiveAll"

\* the positions in the log at which perceive(t) of a node finished
Stores(t) == {i \in DOMAIN log : log[i].e = "store" /\ log[i].a = t}

\* the positions at which the oracle was sent to state t outside any sandbox
\* frame
Gotos(t) == {i \in DOMAIN log : log[i].e = "goto" /\ log[i].a = t /\ log[i].d = 0}

\* the positions at which a percept was built
Built == {i \in DOMAIN log : log[i].e = "new"}

\* C22: in perceiveAll the oracle goes to 'start' before the collisions are
\* observed, and they are observed before any node perceives anything; then
\* the oracle goes to 'start' before every node's perceive('start') and to
\* 'end', after those, before every node's perceive('end'); on return the
\* collisions name shapes and every node of objs has a cache entry for 'start'
\* and one for 'end'.
C22_PerceiveAllOrder ==
  PerceiveAllDone =>
    /\ 1 \in Gotos("start")
    /\ log[2].e = "observeCollisions"
    /\ \A i \in DOMAIN log : log[i].e = "observeCollisions" => i = 2
    /\ \E s \in Gotos("start"), e \in Gotos("end") :
         /\ 2 < s /\ s < e
         /\ \A i \in Built \cup Stores("start") \cup Stores("end") : s < i
         /\ \A i \in Stores("start") : i < e
         /\ \A i \in Stores("end") : e < i
         /\ \A k \in DOMAIN objs :
              /\ \E i \in Stores("start") : log[i].n = objs[k]
              /\ \E i \in Stores("end") : log[i].n = objs[k]
    /\ \A i \in DOMAIN collisions :
         collisions[i].a \in Shapes /\ collisions[i].b \in Shapes
    /\ \A k \in DOMAIN objs : {"start", "end"} \subseteq DOMAIN times[objs[k]]

\* perceiveAll ran in a scene with two objects and recorded collisions, after
\* an earlier call had already filled part of the cache
C22_Witness ==
  /\ PerceiveAllDone
  /\ Len(objs) = 2
  /\ Len(collisions) = 2
  /\ ops = 2
  /\ Stores("end") # {}

----------------------------------------------------------------------------
\* The objects of a SceneNode

\* the tower scene inside a frame
Framed == [Tower EXCEPT !.shapes = <<1, 2, 0, Frame>>]

\* registerObjects on a scene whose objects are registered already
RegisterObjectsAgain ==
  /\ ops < MaxOps
  /\ hasNode # {}
  /\ \E r \in {registerObjects(objs, hasNode)} :
       /\ objs' = r.objs
       /\ hasNode' = r.hasNode
  /\ call' = Call("registerObjects", NoOther, "", NoOpts, "", <<>>)
  /\ log' = <<>>
  /\ ops' = ops + 1
  /\ UNCHANGED <<world, times, gtimes, collisions, curr_state, nextId, sol, heap, fits_solution>>

SceneInit ==
  /\ world \in Worlds \cup {Framed}
  /\ InitScene
  /\ sol = NoSolution

SceneNext ==
  \/ RegisterObjects
  \/ RegisterObjectsAgain
  \/ \E name \in {"start", "end"} : GotoState(name)
  \/ \E t \in {NoTime, "start", "end"} : PerceiveCurrent(t)
  \/ PerceiveAll

SceneSpec == SceneInit /\ [][SceneNext]_vars

Registered == call.op \in {"registerObjects", "perceiveCurrent", "perceiveAll"}

\* objs holds every movable shape of the scene once and nothing else
ObjsExact ==
  /\ Range(objs) = world.movable
  /\ \A i, j \in DOMAIN objs : objs[i] = objs[j] => i = j

\* every node of objs is the object_node of its shape
BackPointers == Range(objs) \subseteq hasNode

\* C23: after any registerObjects, perceiveCurrent or perceiveAll, objs holds
\* one ObjectNode per movable shape and nothing else, each node is the
\* object_node of its shape, and the ground and the frame, when the scene has
\* them, each have an ObjectNode that is not in objs.
C23_SceneObjects ==
  Registered =>
    /\ ObjsExact
    /\ BackPointers
    /\ ground \cup frame \subseteq hasNode \ Range(objs)

\* what holds of the code: the same with the ground alone
SceneObjectsGroundOnly ==
  Registered =>
    /\ ObjsExact
    /\ BackPointers
    /\ ground \subseteq hasNode \ Range(objs)
    /\ frame \cap hasNode = {}

----------------------------------------------------------------------------
\* The decision of supports

\* 2 lies on 1 and also leans against something else: it stays where it is
\* when 1 is taken away
Rest == [Tower EXCEPT !.mvw = {<<0, 1>>, <<0, 2>>}]

SupportsInit ==
  /\ world \in Worlds \cup {Rest}
  /\ InitScene
  /\ sol = NoSolution

\* an application that asks for supports between any two nodes, the ground
\* included, with the caches empty or partly filled
SupportsNext ==
  \/ RegisterObjects
  \/ \E name \in {"start", "end"} : GotoState(name)
  \/ \E n \in Shapes, o \in Shapes, t \in TimeArgs :
       Get(n, "supports", t, o, FALSE, FALSE)
  \/ \E key \in {"moves", "stability"}, t \in TimeArgs :
       Get(2, key, t, NoOther, FALSE, FALSE)

SupportsSpec == SupportsInit /\ [][SupportsNext]_vars

\* what the getters and the two probes yield for A and B, asked in the order
\* of checkSupports, from the state h on
SupportsInputs(h, A, B) ==
  Then(getAttr0(h, B, "moves", NoOpts), LAMBDA moves :
  Then(getRel0(moves.h, A, "touch", Opts(NoTime, B, FALSE, FALSE)), LAMBDA touch :
  Then(ProbeMoves(touch.h, A, B), LAMBDA bm :
  Then(getRel1(bm.h, B, "on_top_of", Opts(NoTime, A, FALSE, FALSE)), LAMBDA ot :
  Then(getRel0(ot.h, A, "close", Opts(NoTime, B, FALSE, FALSE)), LAMBDA nr :
  Then(getAttr0(nr.h, B, "stability", NoOpts), LAMBDA st :
  Then(ProbeStability(st.h, A, B), LAMBDA sw :
    [moves |-> moves.res[1].act > activation_threshold,
     touch |-> touch.res[1].act > activation_threshold,
     moves_without |-> bm.p.act > activation_threshold,
     on_top |-> ot.res[1].act > activation_threshold,
     close |-> nr.res[1].act > activation_threshold,
     stable |-> st.res[1].label = "stable",
     stable_without |-> sw.p.label = "stable"])))))))

\* the decision as a table over these
SupportsDecision(A, B, in) ==
  IF A = B \/ in.moves THEN "not"
  ELSE IF in.moves_without THEN (IF in.touch THEN "directly" ELSE "indirectly")
  ELSE IF in.on_top THEN "stabilizes"
  ELSE IF in.close /\ in.stable /\ ~in.stable_without THEN "stabilizes"
  ELSE "not"

\* the last call built a supports percept
SupportsBuilt ==
  /\ IsGet
  /\ call.key = "supports"
  /\ call.kind = "percept"
  /\ \E i \in Events("new") : log[i].a = "supports" /\ log[i].n = call.n

----------------------------------------------------------------------------
\* The thresholds of checkStability.  Speeds and distances are in hundredths,
\* rotations in thousandths of a radian.

max_initial_v == 25
max_v == 40
max_dx == 20
max_drot_circle == 1047
max_drot == 157

\* is_stable with 9 and 60 degrees as the limits of the rotation
\* (3.1416 / 180 thousandths of a radian per thousandth of a degree)
PushPasses_degrees(m, circle, soft) ==
  LET Reaches(x, max) == IF soft THEN 3 * x >= 2 * max ELSE x >= max
      Turns(deg) == IF soft THEN 3 * 1800 * m[3] >= 2 * deg * 31416
                    ELSE 1800 * m[3] >= deg * 31416
  IN ~ \/ Reaches(m[1], max_v)
       \/ Reaches(m[2], max_dx)
       \/ circle /\ Turns(60)
       \/ ~circle /\ Turns(9)

\* the `after` callback of is_stable for a body that has speed m[1], has
\* moved m[2] and has turned by m[3] after the push: factor is 2/3 when soft
PushPasses(m, circle, soft) ==
  LET Reaches(x, max) == IF soft THEN 3 * x >= 2 * max ELSE x >= max
  IN ~ \/ Reaches(m[1], max_v)
       \/ Reaches(m[2], max_dx)
       \/ circle /\ Reaches(m[3], max_drot_circle)
       \/ ~circle /\ Reaches(m[3], max_drot)

\* what a push can leave behind: <<speed, distance moved, rotation>>
Probes ==
  {<<0, 0, 0>>, <<40, 0, 0>>, <<39, 0, 0>>, <<0, 20, 0>>, <<0, 0, 156>>,
   <<0, 0, 157>>, <<0, 0, 1047>>}

PushKinds == {"left", "right"} \X BOOLEAN

\* the tower scene with a body 1 that is static or not, a circle or not, has
\* the speed v and answers the four pushes as probe says
Measured(static, v, circle, probe) ==
  [val |-> Tower.val,
   shape |-> [Tower.shape EXCEPT ![1] = IF circle THEN "circle" ELSE "rectangle"],
   static |-> IF static THEN {Ground, 1} ELSE {Ground},
   fast |-> IF v > max_initial_v THEN {<<s, 1>> : s \in AllStates} ELSE {},
   pass |-> {<<NoOther, 1, k[1], k[2]>> : k \in {q \in PushKinds : PushPasses(probe[q], circle, q[2])}},
   mvw |-> Tower.mvw,
   collisions |-> <<>>,
   shapes |-> Tower.shapes,
   movable |-> Tower.movable,
   body |-> [static |-> static, v |-> v, circle |-> circle, probe |-> probe]]

StabilityInit ==
  /\ world \in {Measured(st, v, c, [k \in PushKinds |-> IF k[2] THEN soft ELSE <<l, r>>[IF k[1] = "left" THEN 1 ELSE 2]]) :
                  st \in BOOLEAN, v \in {25, 26}, c \in BOOLEAN,
                  l \in Probes, r \in Probes, soft \in {<<0, 0, 0>>, <<27, 0, 0>>, <<0, 0, 698>>}}
  /\ InitScene
  /\ sol = NoSolution

StabilityNext ==
  \/ RegisterObjects
  \/ \E name \in {"start", "end"} : GotoState(name)
  \/ \E t \in TimeArgs : Get(1, "stability", t, NoOther, FALSE, FALSE)

StabilitySpec == StabilityInit /\ [][StabilityNext]_vars

\* the last call built the stability percept of body 1
StabilityBuilt ==
  /\ IsGet
  /\ call.key = "stability"
  /\ call.kind = "percept"
  /\ \E i \in Events("new") : log[i].a = "stability"

\* the value of checkStability as stated, for a test Passes of one push
StabilityStated(Passes(_, _, _)) ==
  LET b == world.body
      Ok(dir, soft) == Passes(b.probe[<<dir, soft>>], b.circle, soft)
  IN IF b.static THEN "stable"
     ELSE IF b.v > 25 THEN "moving"
     ELSE IF Ok("left", FALSE) /\ Ok("right", FALSE) THEN "stable"
     ELSE IF Ok("left", TRUE) /\ Ok("right", TRUE) THEN "slightly unstable"
     ELSE "unstable"

\* speed below 0.4, distance below 0.2, rotation below 9 degrees (60 for a
\* circle), all times 2/3 for a small push
PassesDegrees(m, circle, soft) ==
  LET Below(x, max) == IF soft THEN 3 * x < 2 * max ELSE x < max
  IN /\ Below(m[1], 40)
     /\ Below(m[2], 20)
     /\ Below(1800 * m[3], (IF circle THEN 60 ELSE 9) * 31416)

\* the same with the rotation below 0.157 rad (1.047 rad for a circle)
PassesRadians(m, circle, soft) ==
  LET Below(x, max) == IF soft THEN 3 * x < 2 * max ELSE x < max
  IN /\ Below(m[1], 40)
     /\ Below(m[2], 20)
     /\ Below(m[3], IF circle THEN 1047 ELSE 157)

\* no probe ran for a static or a moving body; every impulse is applied in
\* the `before` of a sandbox frame; the label follows the value
StabilityFrames ==
  /\ world.body.static \/ world.body.v > 25 => Events("push") = {} /\ Events("before") = {}
  /\ \A i \in Events("before") :
       /\ log[i].d = 1
       /\ log[i - 1].e = "push"
  /\ call.res[1].label =
       (IF call.res[1].val \in {"stable", "slightly unstable"} THEN "stable" ELSE "unstable")

----------------------------------------------------------------------------
\* The shape attributes.  A shape is given by what the attributes read of
\* it: its class, whether it is closed, and for a polygon the angles at its
\* points (degrees) and the lengths of its edges, sorted.

Polygon(closed, angles, edges) ==
  [class |-> "Polygon", closed |-> closed, angles |-> angles, edges |-> edges]
Circle == [class |-> "Circle", closed |-> TRUE, angles |-> <<>>, edges |-> <<>>]
Blob == [class |-> "Shape", closed |-> TRUE, angles |-> <<>>, edges |-> <<>>]

\* ShapeAttribute.isRectangle (and its copies in SquareAttribute and
\* RectangleAttribute)
isRectangle(poly) ==
  /\ Len(poly.angles) = 4
  /\ \A i \in DOMAIN poly.angles : ~(poly.angles[i] > 110 \/ poly.angles[i] < 70)

\* edges[0]/edges[3] < 0.7
Oblong(shape) == 10 * shape.edges[1] < 7 * shape.edges[4]

\* ShapeAttribute.determineShape
determineShape(shape) ==
  IF shape.class = "Polygon" THEN
    IF ~shape.closed THEN "unknown"
    ELSE IF Len(shape.angles) = 3 THEN "triangle"
    ELSE IF isRectangle(shape) THEN (IF Oblong(shape) THEN "rectangle" ELSE "square")
    ELSE "unknown"
  ELSE IF shape.class = "Circle" THEN "circle"
  ELSE "unknown"

\* ShapeAttribute.prototype.get_activity, in tenths
ShapeActivity(val) == IF val = "?" THEN 0 ELSE 10

\* squareness that knows no in-between
squareness_crisp(shape) ==
  IF shape.class = "Polygon" /\ shape.closed /\ isRectangle(shape) /\ ~Oblong(shape)
  THEN 10 ELSE 0

\* SquareAttribute.squareness, in tenths
squareness(shape) ==
  IF shape.class = "Polygon" /\ shape.closed /\ isRectangle(shape)
  THEN (IF Oblong(shape) THEN 3 ELSE 10)
  ELSE 0

\* RectangleAttribute.rectness, in tenths
rectness(shape) ==
  IF shape.class = "Polygon" /\ shape.closed /\ isRectangle(shape)
  THEN (IF Oblong(shape) THEN 10 ELSE 4)
  ELSE 0

\* the angles and the sorted edge lengths of the polygons looked at
AngleLists ==
  {<<60, 60, 60>>, <<90, 45, 45>>,
   <<90, 90, 90, 90>>, <<85, 95, 85, 95>>, <<70, 110, 70, 110>>,
   <<69, 111, 69, 111>>, <<110, 111, 70, 69>>, <<108, 108, 108, 108, 108>>}
EdgeLists ==
  {<<2, 2, 5, 5>>, <<7, 7, 10, 10>>, <<69, 69, 100, 100>>, <<5, 5, 5, 5>>,
   <<3, 4, 5, 5>>}

ShapeInputs ==
  {Polygon(c, a, e) : c \in BOOLEAN, a \in AngleLists, e \in EdgeLists}
    \cup {Circle, Blob}

ShapeCall(op, shape, val, act, label) ==
  [op |-> op, shape |-> shape, val |-> val, act |-> act, label |-> label]

\* new ShapeAttribute(obj), get_activity(), get_label()
PerceiveShape(shape) ==
  /\ \E val \in {determineShape(shape)} :
       call' = ShapeCall("shape", shape, val, ShapeActivity(val), val)
  /\ UNCHANGED <<world, objs, hasNode, times, gtimes, collisions, curr_state,
                 nextId, log, ops, sol, heap, fits_solution>>

\* new SquareAttribute(obj), get_activity(), get_label()
PerceiveSquare(shape) ==
  /\ \E val \in {squareness(shape)} :
       call' = ShapeCall("square", shape, val, val, "square")
  /\ UNCHANGED <<world, objs, hasNode, times, gtimes, collisions, curr_state,
                 nextId, log, ops, sol, heap, fits_solution>>

\* new RectangleAttribute(obj), get_activity(), get_label()
PerceiveRect(shape) ==
  /\ \E val \in {rectness(shape)} :
       call' = ShapeCall("rect", shape, val, val, "rect")
  /\ UNCHANGED <<world, objs, hasNode, times, gtimes, collisions, curr_state,
                 nextId, log, ops, sol, heap, fits_solution>>

ShapeNext ==
  \E shape \in ShapeInputs :
    \/ PerceiveShape(shape)
    \/ PerceiveSquare(shape)
    \/ PerceiveRect(shape)

ShapeSpec == Init /\ [][ShapeNext]_vars

\* the shape named in words
IsTriangle(s) == s.class = "Polygon" /\ s.closed /\ Len(s.angles) = 3
IsRect(s) ==
  /\ s.class = "Polygon" /\ s.closed /\ Len(s.angles) = 4
  /\ \A i \in 1..4 : 70 <= s.angles[i] /\ s.angles[i] <= 110
EdgeRatioBelow(s) == 10 * s.edges[1] < 7 * s.edges[4]

ShapeStated(s) ==
  IF s.class = "Circle" THEN "circle"
  ELSE IF IsTriangle(s) THEN "triangle"
  ELSE IF IsRect(s) THEN (IF EdgeRatioBelow(s) THEN "rectangle" ELSE "square")
  ELSE "unknown"

\* C26: the shape attribute labels a shape circle, triangle, rectangle,
\* square or unknown as its class, closedness, number of points, angles and
\* edge ratio say, and its activity is 1 for a classified shape and 0 for the
\* label unknown.
C26_ShapeLabel ==
  call.op = "shape" =>
    /\ call.label = ShapeStated(call.shape)
    /\ call.act = (IF call.label = "unknown" THEN 0 ELSE 10)

ShapePerceived == call.op \in {"shape", "square", "rect"}

\* C27: for a closed polygon of four points with all angles in [70, 110]
\* degrees and an edge ratio below 0.7 the shape is 'rectangle', the rect
\* activity is 1 and the square activity is 0.
C27_OblongCrisp ==
  ShapePerceived /\ IsRect(call.shape) /\ EdgeRatioBelow(call.shape) =>
    /\ call.op = "shape" => call.label = "rectangle"
    /\ call.op = "rect" => call.act = 10
    /\ call.op = "square" => call.act = 0

\* C27 amended: the same with the square activity 0.3.
C27_OblongSoft ==
  ShapePerceived /\ IsRect(call.shape) /\ EdgeRatioBelow(call.shape) =>
    /\ call.op = "shape" => call.label = "rectangle" /\ call.act = 10
    /\ call.op = "rect" => call.act = 10
    /\ call.op = "square" => call.act = 3

\* the squareness of the polygon with angles of 85 and 95 degrees and edges
\* of 2, 2, 5 and 5 was perceived
C27_Witness ==
  /\ call.op = "square"
  /\ call.shape = Polygon(TRUE, <<85, 95, 85, 95>>, <<2, 2, 5, 5>>)
  /\ call.act = 3

----------------------------------------------------------------------------
\* The collision relationships

\* the strongest of the collisions of `colls`, 0 for none
Strongest(colls) ==
  IF Len(colls) = 0 THEN 0 ELSE SeqMax([i \in 1..Len(colls) |-> colls[i].dv])

GetsHitRelationship(h, obj, other) ==
  LET val == Strongest(SelectSeq(h.collisions, LAMBDA c : c.b = obj /\ c.a = other))
  IN [h |-> Alloc(h, "gets_hit", obj),
      p |-> Percept(h.next, "gets_hit", obj, other, "", val,
                    IF val = 0 THEN 0 ELSE 10, "gets-hit-by")]

CollidesRelationship(h, obj, other) ==
  LET val == Strongest(SelectSeq(h.collisions,
                 LAMBDA c : (c.a = obj /\ c.b = other) \/ (c.b = obj /\ c.a = other)))
  IN [h |-> Alloc(h, "collides", obj),
      p |-> Percept(h.next, "collides", obj, other, "", val,
                    IF val = 0 THEN 0 ELSE 10, "collides-with")]

\* 1 and 2 drift into each other at the start and 2 is thrown back onto 1
\* and onto the ground
Bounce ==
  [Lean EXCEPT !.collisions =
     <<[a |-> [master_obj |-> 1], b |-> [master_obj |-> 2], dv |-> 0],
       [a |-> [master_obj |-> 2], b |-> [master_obj |-> 1], dv |-> 4],
       [a |-> [master_obj |-> 2], b |-> [master_obj |-> 0], dv |-> 1]>>]

\* new ObjectNode.rels[key](obj, other) for a collision relationship, as
\* perceive does it for every other object
NewCollisionRel(key, obj, other) ==
  /\ ops < MaxOps
  /\ obj \in hasNode /\ other \in hasNode /\ obj # other
  /\ \E c \in {CASE key = "hits" -> HitsRelationship(H0, obj, other)
                 [] key = "gets_hit" -> GetsHitRelationship(H0, obj, other)
                 [] key = "collides" -> CollidesRelationship(H0, obj, other)} :
       /\ Commit(c.h)
       /\ call' = Call("new", obj, key, Opts(NoTime, other, FALSE, FALSE), "percept", <<c.p>>)
  /\ ops' = ops + 1
  /\ UNCHANGED <<world, objs, hasNode, sol, heap, fits_solution>>

CollisionInit ==
  /\ world \in Worlds \cup {Bounce}
  /\ InitScene
  /\ sol = NoSolution

CollisionNext ==
  \/ RegisterObjects
  \/ PerceiveAll
  \/ \E key \in {"hits", "gets_hit", "collides"}, obj \in Shapes, other \in Shapes :
       NewCollisionRel(key, obj, other)

CollisionSpec == CollisionInit /\ [][CollisionNext]_vars

\* the recorded collisions from a to b
Recorded(a, b) == {i \in DOMAIN collisions : collisions[i].a = a /\ collisions[i].b = b}

\* C28: with the collision list as recorded when the relationship is
\* perceived, hits(a, b) is active iff a collision a -> b is recorded,
\* gets_hit(a, b) iff a collision b -> a is, collides(a, b) iff either is,
\* whatever the relative speed of the collisions.
C28_CollisionActivity ==
  call.op = "new" =>
    LET a == call.n
        b == call.opts.other
        active == call.res[1].act = 10
    IN /\ call.res[1].act \in {0, 10}
       /\ call.key = "hits" => (active <=> Recorded(a, b) # {})
       /\ call.key = "gets_hit" => (active <=> Recorded(b, a) # {})
       /\ call.key = "collides" => (active <=> Recorded(a, b) \cup Recorded(b, a) # {})

----------------------------------------------------------------------------
\* GroupNodes and their clones.  heap.groups holds the GroupNodes, each
\* with its own objs list and a reference into heap.caches, the times objects.

MaxGroups == 2
MaxGroupOps == 3

\* new GroupNode(scene_node, objs): this.times = {}
AllocGroup(hp, gobjs, from) ==
  [hp EXCEPT !.caches = Append(@, EmptyTimes),
             !.groups = Append(@, [objs |-> gobjs, times |-> Len(hp.caches) + 1,
                                   from |-> from])]

\* a clone that starts with a cache of its own, filled like the original's
group_clone_copy(hp, g) ==
  [hp EXCEPT !.caches = Append(@, hp.caches[hp.groups[g].times]),
             !.groups = Append(@, [objs |-> hp.groups[g].objs,
                                   times |-> Len(hp.caches) + 1, from |-> g])]

\* GroupNode.prototype.clone: a copy of objs, gn.times = this.times
group_clone(hp, g) ==
  [AllocGroup(hp, hp.groups[g].objs, g) EXCEPT
     !.groups[Len(hp.groups) + 1].times = hp.groups[g].times]

\* the handler state of a call on the GroupNode g
GroupH(g) ==
  [H0 EXCEPT !.gtimes = heap.caches[heap.groups[g].times],
             !.gobjs = heap.groups[g].objs]

GroupFrame == UNCHANGED <<world, objs, hasNode, times, gtimes, collisions, sol, fits_solution>>

\* GroupNode.sceneGroup(scene_node)
SceneGroup ==
  /\ hasNode # {}
  /\ heap.groups = <<>>
  /\ heap' = AllocGroup(heap, objs, 0)
  /\ call' = Call("sceneGroup", 1, "", NoOpts, "", <<>>)
  /\ log' = <<>>
  /\ UNCHANGED <<curr_state, nextId, ops>>
  /\ GroupFrame

\* g.clone()
CloneGroup(g) ==
  /\ g \in DOMAIN heap.groups
  /\ Len(heap.groups) < MaxGroups
  /\ heap' = group_clone(heap, g)
  /\ call' = Call("clone", g, "", NoOpts, "", <<>>)
  /\ log' = <<>>
  /\ UNCHANGED <<curr_state, nextId, ops>>
  /\ GroupFrame

\* the application takes the object o out of g.objs, or pushes it if it is
\* not a member
EditGroup(g, o) ==
  /\ ops < MaxGroupOps
  /\ g \in DOMAIN heap.groups
  /\ o \in Range(objs)
  /\ heap' = [heap EXCEPT !.groups[g].objs =
                IF o \in Range(@) THEN SelectSeq(@, LAMBDA x : x # o) ELSE Append(@, o)]
  /\ call' = Call("edit", g, "", NoOpts, "", <<>>)
  /\ log' = <<>>
  /\ ops' = ops + 1
  /\ UNCHANGED <<curr_state, nextId>>
  /\ GroupFrame

\* g.get(key, {time, cache_only}) on the GroupNode g
GetOfGroup(g, key, time, cache_only) ==
  /\ ops < MaxGroupOps
  /\ g \in DOMAIN heap.groups
  /\ \E opts \in {Opts(time, NoOther, cache_only, FALSE)} :
       \E r \in {groupGetAttr(GroupH(g), key, opts)} :
         /\ heap' = [heap EXCEPT !.caches[heap.groups[g].times] = r.h.gtimes]
         /\ curr_state' = r.h.curr
         /\ nextId' = r.h.next
         /\ log' = r.h.log
         /\ call' = Call("groupGet", g, key, opts, r.kind, r.res)
  /\ ops' = ops + 1
  /\ GroupFrame

GroupNext ==
  \/ RegisterObjects
  \/ SceneGroup
  \/ \E g \in 1..MaxGroups : CloneGroup(g)
  \/ \E g \in 1..MaxGroups, o \in Movables : EditGroup(g, o)
  \/ \E g \in 1..MaxGroups, key \in Range(GroupAttrKeys), t \in TimeArgs, co \in BOOLEAN :
       GetOfGroup(g, key, t, co)

GroupSpec == Init /\ [][GroupNext]_vars

\* o.time of GroupNode.getAttr
GroupTime(curr, key, opts) ==
  IF GroupAttrConstant(key) THEN "start"
  ELSE IF opts.time = NoTime THEN curr ELSE opts.time

\* the entry of the times object of g for time t and key, <<>> if none
CachedIn(hp, g, t, key) ==
  IF HasKey(hp.caches[hp.groups[g].times], t, key)
  THEN <<hp.caches[hp.groups[g].times][t][key]>> ELSE <<>>

\* C29: a clone has objs equal to the original's; editing the objs of one
\* GroupNode leaves the objs of every other one as they are; and the times
\* cache is shared: a get that finds the percept cached through any node
\* (original or clone) returns that very percept without perceiving, and a
\* percept a get has cached is cached for every node.
C29_CloneSharesCache ==
  [][LET g == call'.n
         t == GroupTime(curr_state, call'.key, call'.opts)
     IN /\ call'.op = "clone" =>
             /\ heap'.groups[Len(heap'.groups)].objs = heap.groups[g].objs
             /\ \A k \in DOMAIN heap.groups : heap'.groups[k] = heap.groups[k]
        /\ call'.op = "edit" =>
             /\ heap'.groups[g].objs # heap.groups[g].objs
             /\ \A k \in DOMAIN heap.groups \ {g} : heap'.groups[k] = heap.groups[k]
        /\ call'.op = "groupGet" =>
             \A k \in DOMAIN heap.groups :
               /\ CachedIn(heap, k, t, call'.key) # <<>> =>
                    /\ call'.kind = "percept"
                    /\ call'.res = CachedIn(heap, k, t, call'.key)
                    /\ log' = <<>>
               /\ call'.kind = "percept" /\ t # NoTime =>
                    CachedIn(heap', k, t, call'.key) = call'.res
    ]_vars

\* a get through the original was answered from the cache with the count
\* that was perceived through the clone after the clone had lost a member
C29_Witness ==
  /\ call.op = "groupGet"
  /\ call.n = 1
  /\ call.key = "count"
  /\ call.kind = "percept"
  /\ log = <<>>
  /\ Len(heap.groups) = 2
  /\ call.res[1].num = Len(heap.groups[2].objs)
  /\ call.res[1].num # Len(heap.groups[1].objs)


----------------------------------------------------------------------------
\* The counters of a Solution

\* solution.checkScenePair(pair, pair_id) for a pair of scenes of any sides
CheckAnyPair(sl, nl, sr, nr, pair_id) ==
  /\ Len(sol.matchedAgainst) < MaxPairs
  /\ \E pair \in {<<Scene(sl, nl), Scene(sr, nr)>>} :
       /\ sol' = checkScenePair(sol, pair, pair_id)
       /\ call' = SolCall("checkScenePair", <<pair, pair_id>>)
  /\ UNCHANGED <<world, objs, hasNode, times, gtimes, collisions, curr_state,
                 nextId, log, ops, heap, fits_solution>>

CountersNext ==
  \/ \E sl \in Sides, sr \in Sides, nl \in 0..2, nr \in 0..2, pair_id \in 1..2 :
       CheckAnyPair(sl, nl, sr, nr, pair_id)
  \/ \E main_side \in Sides : SetMainSide(main_side)

CountersSpec == SolInit /\ [][CountersNext]_vars

\* the number of scenes of a pair that are on the given side
OnSide(pair, side) == Cardinality({i \in DOMAIN pair : pair[i].side = side})

\* C30: the matches never exceed the checks and no counter is negative; no
\* counter ever decreases; a checkScenePair raises lchecks by the number of
\* left scenes of the pair and rchecks by the number of right ones and
\* appends the pair id to matchedAgainst, whether or not it is there already;
\* selects_single_objs never goes back from false to true.
C30_Counters ==
  [][/\ 0 <= sol'.lmatches /\ sol'.lmatches <= sol'.lchecks
     /\ 0 <= sol'.rmatches /\ sol'.rmatches <= sol'.rchecks
     /\ sol'.lchecks >= sol.lchecks /\ sol'.rchecks >= sol.rchecks
     /\ sol'.lmatches >= sol.lmatches /\ sol'.rmatches >= sol.rmatches
     /\ ~sol.selects_single_objs => ~sol'.selects_single_objs
     /\ call'.op = "checkScenePair" =>
          /\ sol'.lchecks = sol.lchecks + OnSide(call'.arg[1], "left")
          /\ sol'.rchecks = sol.rchecks + OnSide(call'.arg[1], "right")
          /\ sol'.matchedAgainst = Append(sol.matchedAgainst, call'.arg[2])
     /\ call'.op # "checkScenePair" => sol'.matchedAgainst = sol.matchedAgainst
    ]_vars

\* the same pair id was checked twice, one pair had two left scenes, and a
\* scene in which a single object is selected was checked after one in which
\* two were
C30_Witness ==
  /\ call.op = "checkScenePair"
  /\ sol.matchedAgainst = <<1, 1>>
  /\ sol.lchecks = 3 /\ sol.rchecks = 1
  /\ sol.lmatches < sol.lchecks
  /\ ~sol.selects_single_objs
  /\ call.arg[1][2].selected = 1

====
